---- MODULE Spec2Model ----
(***************************************************************************)
(* File Consolidator: the tree scanner (UIManager.populate_file_tree and   *)
(* filter_tree), the selection collector (_collect_included_files), the    *)
(* control side of a merge run (start_consolidation, request_cancel,       *)
(* check_queue) and the worker (FileProcessor.process_files and the merge  *)
(* strategies).                                                            *)
(*                                                                         *)
(* Strings are sequences of one-character strings, so that fnmatch,       *)
(* str.lower and str.endswith are computed character by character.  A path *)
(* is a sequence of components: <<>> is the empty string, <<Slash>> is the *)
(* root directory "/", <<Slash, a, b>> is "/a/b".                          *)
(***************************************************************************)
EXTENDS Integers, Sequences, FiniteSets, TLC

VARIABLES
  \* ---- the environment
  os_nt,                  \* os.name = "nt": os.path.normcase lowers, else identity
  fs,                     \* the directory below each root: relative dir -> listing
  config_file,            \* app_config.json (ConfigManager.py 9)
  running,                \* the application window exists
  \* ---- tk variables and configuration (main.py 29-43, ConfigManager.py 25-26)
  root_folder,
  file_types,
  output_format,
  include_headers,
  filter_var,
  folder_ignore_patterns,
  file_ignore_patterns,
  global_folder_ignores,
  global_file_ignores,
  show_ignored_separately,
  hide_ignored,
  hide_check_state,
  \* ---- the two Treeviews and the scanner's maps (UIManager.py 50-53, 98, 114)
  tree,
  ignored_tree,
  tree_item_paths,
  all_tree_items_master_list,
  classified,             \* history: <<path, status>> of every file the last scan gave a status
  ui_hung,                \* a handler of the control side never returned
  last_report,            \* what the last handler told the user (message box or traceback)
  \* ---- the run (main.py 29-33, UIManager.py 177-190)
  cancel_requested,
  processing_errors,
  processing_queue,
  start_button,
  cancel_button,
  view_errors_button,
  status_label,
  progress,
  completion,             \* the last "Operation Complete" dialog of check_queue
  error_log,              \* the "Processing Errors" window and the log its button exported
  \* ---- the worker thread
  pc,                     \* where the worker is in process_files / the strategy
  request,                \* the arguments of process_files
  strategy,               \* the merge function merge_documents called, "none" before
  idx,                    \* the strategy's loop index i (0-based)
  output,                 \* the output file: absent, or what has been written
  writer,                 \* merge state kept in memory (PdfWriter pages, master_doc, master_ppt)
  temp_pdfs,              \* merge_as_pdf's temp_pdfs
  office,                 \* merge_as_pdf's word / powerpoint COM objects
  disk_temps,             \* converted PDFs that exist on disk
  OFFICE_INSTALLED        \* FileProcessor.OFFICE_INSTALLED: comtypes could be imported

scanVars == <<os_nt, OFFICE_INSTALLED, fs, config_file, running, root_folder, file_types, output_format, include_headers,
              filter_var, folder_ignore_patterns, file_ignore_patterns,
              global_folder_ignores, global_file_ignores, show_ignored_separately,
              hide_ignored, hide_check_state, tree, ignored_tree, tree_item_paths,
              all_tree_items_master_list, classified, ui_hung, last_report>>
\* the run's variables but the status label, which scans leave alone
runVars0 == <<cancel_requested, processing_errors, processing_queue, start_button,
              cancel_button, view_errors_button, progress, completion, error_log>>
runVars == <<runVars0, status_label>>
workerVars == <<pc, request, strategy, idx, output, writer, temp_pdfs, office, disk_temps>>
vars == <<scanVars, runVars, workerVars>>

----------------------------------------------------------------------------
(* Strings *)

UpperChars == <<"A","B","C","D","E","F","G","H","I","J","K","L","M",
                "N","O","P","Q","R","S","T","U","V","W","X","Y","Z">>
LowerChars == <<"a","b","c","d","e","f","g","h","i","j","k","l","m",
                "n","o","p","q","r","s","t","u","v","w","x","y","z">>

LowerChar(c) ==
  IF \E i \in 1..Len(UpperChars) : UpperChars[i] = c
    THEN LowerChars[CHOOSE i \in 1..Len(UpperChars) : UpperChars[i] = c]
    ELSE c

\* str.lower()
Lower(s) == [i \in 1..Len(s) |-> LowerChar(s[i])]

\* str.endswith(suffix)
EndsWith(s, suffix) ==
  /\ Len(suffix) <= Len(s)
  /\ SubSeq(s, Len(s) - Len(suffix) + 1, Len(s)) = suffix

\* needle in s  (substring test)
Contains(s, needle) ==
  \E i \in 1..(Len(s) - Len(needle) + 1) : SubSeq(s, i, i + Len(needle) - 1) = needle

\* os.path.normcase
normcase(s) == IF os_nt THEN Lower(s) ELSE s

\* fnmatch.fnmatchcase for patterns of literals, "*" and "?"
RECURSIVE fnmatchcase(_, _)
fnmatchcase(name, pat) ==
  IF pat = <<>> THEN name = <<>>
  ELSE IF Head(pat) = "*"
    THEN fnmatchcase(name, Tail(pat)) \/ (name # <<>> /\ fnmatchcase(Tail(name), pat))
  ELSE /\ name # <<>>
       /\ (Head(pat) = "?" \/ Head(pat) = Head(name))
       /\ fnmatchcase(Tail(name), Tail(pat))

\* fnmatch.fnmatch(name, pat)
fnmatch(name, pat) == fnmatchcase(normcase(name), normcase(pat))

\* any(fnmatch.fnmatch(name, pat) for pat in pats)
MatchesAny(name, pats) == \E i \in 1..Len(pats) : fnmatch(name, pats[i])

----------------------------------------------------------------------------
(* Paths *)

Slash == <<"/">>

dirname(p) == IF Len(p) <= 1 THEN p ELSE SubSeq(p, 1, Len(p) - 1)
basename(p) == IF Len(p) <= 1 THEN <<>> ELSE p[Len(p)]
\* os.path.join(p, *parts) for relative parts
join(p, parts) == p \o parts
\* str.lower() of a path
LowerPath(p) == [i \in 1..Len(p) |-> Lower(p[i])]
\* s in path, for the path written with separators
InPath(s, p) == s = <<>> \/ \E i \in 1..Len(p) : Contains(p[i], s)
\* os.path.splitext(name)[0]: the name without the extension splitext1 gives
splitext0(name) ==
  LET dots == {i \in 2..Len(name) : name[i] = "."}
  IN  IF dots = {} THEN name
      ELSE LET d == CHOOSE i \in dots : \A j \in dots : j <= i
           IN  SubSeq(name, 1, d - 1)

\* str(i) of a natural number, in an f-string
DigitChars == <<"0","1","2","3","4","5","6","7","8","9">>
RECURSIVE Str(_)
Str(i) == IF i < 10 THEN <<DigitChars[i + 1]>>
          ELSE Str(i \div 10) \o <<DigitChars[(i % 10) + 1]>>

\* os.path.splitext(name)[1] ("" when the name has no dot after its first character)
splitext1(name) ==
  LET dots == {i \in 2..Len(name) : name[i] = "."}
  IN  IF dots = {} THEN <<>>
      ELSE LET d == CHOOSE i \in dots : \A j \in dots : j <= i
           IN  SubSeq(name, d, Len(name))

----------------------------------------------------------------------------
(* Names, roots and directory contents the model draws from *)

a_py    == <<"a",".","p","y">>
b_pyc   == <<"b",".","p","y","c">>
c_py    == <<"c",".","p","y">>
d_docx  == <<"d",".","d","o","c","x">>
pycache == <<"_","_","p","y","c","a","c","h","e","_","_">>
proj    == <<"p","r","o","j">>
Proj    == <<"P","r","o","j">>
Sub     == <<"S","u","b">>
ext_py  == <<".","p","y">>
ext_txt == <<".","t","x","t">>
ext_md  == <<".","m","d">>
ext_pdf == <<".","p","d","f">>
ext_docx == <<".","d","o","c","x">>
ext_pptx == <<".","p","p","t","x">>
ext_doc == <<".","d","o","c">>
ext_ppt == <<".","p","p","t">>
x_pdf   == <<"x",".","p","d","f">>
d_0_pdf == <<"d","_","0",".","p","d","f">>
e_pptx  == <<"e",".","p","p","t","x">>
pat_pyc == <<"*",".","p","y","c">>
Folder  == <<"F","o","l","d","e","r">>

Dir(dirnames, filenames, readable) ==
  [dirnames |-> dirnames, filenames |-> filenames, readable |-> readable]

\* a.py, b.pyc and __pycache__/c.py
FS_Scenario ==
  (<<>> :> Dir(<<pycache>>, <<a_py, b_pyc>>, TRUE)) @@
  (<<pycache>> :> Dir(<<>>, <<c_py>>, TRUE))

\* a folder named like the root, holding a file named like one of the root's
FS_Nested ==
  (<<>> :> Dir(<<proj>>, <<a_py, c_py, b_pyc>>, TRUE)) @@
  (<<proj>> :> Dir(<<>>, <<a_py, c_py>>, TRUE))

\* an upper-case folder, an ignored file read first, an unreadable folder
FS_Deep ==
  (<<>> :> Dir(<<Sub, pycache>>, <<b_pyc, a_py>>, TRUE)) @@
  (<<Sub>> :> Dir(<<pycache>>, <<c_py>>, TRUE)) @@
  (<<Sub, pycache>> :> Dir(<<>>, <<a_py>>, TRUE)) @@
  (<<pycache>> :> Dir(<<>>, <<a_py>>, FALSE))

FileSystems == {FS_Scenario, FS_Nested, FS_Deep}
Roots == {<<Slash, proj>>, <<Slash, Proj>>}

\* ConfigManager.DEFAULT_GLOBAL_IGNORE_FOLDERS / _FILES, the entries the names above can match
DEFAULT_GLOBAL_IGNORE_FOLDERS == <<pycache>>
DEFAULT_GLOBAL_IGNORE_FILES == <<pat_pyc>>

\* the text of a session pattern list: a list literal, or text literal_eval rejects
Patterns(pats) == [ok |-> TRUE, pats |-> pats]
InvalidPatterns == [ok |-> FALSE, pats |-> <<>>]

----------------------------------------------------------------------------
(* ttk.Treeview: a tree is the sequence of its items in insertion order.   *)
(* Item ids are numbered from 1 within a scan: populate_file_tree deletes  *)
(* every item and clears every map keyed by an id before it inserts, so an *)
(* id of an earlier scan is never used again.  Parent 0 is "".  The Size   *)
(* column is left out (nothing reads it).                                  *)

Item(iid, parent, text, status, type) ==
  [iid |-> iid, parent |-> parent, text |-> text, status |-> status, type |-> type]

\* tree.exists(iid), "" being the invisible root
ItemExists(t, iid) == iid = 0 \/ \E i \in 1..Len(t) : t[i].iid = iid

\* tree.item(iid)
ItemOf(t, iid) == t[CHOOSE i \in 1..Len(t) : t[i].iid = iid]

\* get_children giving the children last inserted first
get_children_Reversed(t, parent) ==
  LET kids == SelectSeq(t, LAMBDA it : it.parent = parent)
  IN  [i \in 1..Len(kids) |-> kids[Len(kids) + 1 - i].iid]

\* tree.get_children(parent)
get_children(t, parent) ==
  LET kids == SelectSeq(t, LAMBDA it : it.parent = parent)
  IN  [i \in 1..Len(kids) |-> kids[i].iid]

\* a dict keyed by k: the sequence of its <<key, value>> entries in insertion order
DictHas(d, k) == \E i \in 1..Len(d) : d[i][1] = k
DictGet(d, k, default) ==
  IF DictHas(d, k) THEN d[CHOOSE i \in 1..Len(d) : d[i][1] = k][2] ELSE default
DictSet(d, k, v) ==
  IF DictHas(d, k) THEN [i \in 1..Len(d) |-> IF d[i][1] = k THEN <<k, v>> ELSE d[i]]
  ELSE Append(d, <<k, v>>)
DictValues(d) == {d[i][2] : i \in 1..Len(d)}

----------------------------------------------------------------------------
(* UIManager.populate_file_tree *)

\* extensions = [ext.strip().lower() for ext in file_types.split(',') if ext.strip()]
\* file_types is held as its comma-separated fields
Extensions(ftypes) ==
  LET kept == SelectSeq(ftypes, LAMBDA e : e # <<>>)
  IN  [i \in 1..Len(kept) |-> Lower(kept[i])]

\* lines 352-355
is_ext_match(c, f) == \E i \in 1..Len(c.extensions) : EndsWith(Lower(f), c.extensions[i])
is_global_file_ignored(c, f) == MatchesAny(f, c.global_file)
is_session_file_ignored(c, f) == MatchesAny(f, c.session_file)
is_ignored(c, f) ==
  is_global_file_ignored(c, f) \/ is_session_file_ignored(c, f) \/ ~is_ext_match(c, f)

\* FileStatus with the global test before the session test
FileStatus_GlobalFirst(c, f) ==
  IF is_global_file_ignored(c, f) THEN "Ignored (Global)"
  ELSE IF is_session_file_ignored(c, f) THEN "Ignored (Session)"
  ELSE IF ~is_ext_match(c, f) THEN "Ignored (Type)"
  ELSE "Included"

\* lines 360-363
FileStatus(c, f) ==
  IF is_session_file_ignored(c, f) THEN "Ignored (Session)"
  ELSE IF is_global_file_ignored(c, f) THEN "Ignored (Global)"
  ELSE IF ~is_ext_match(c, f) THEN "Ignored (Type)"
  ELSE "Included"

\* KeepFolder without the test of the global list
KeepFolder_SessionOnly(c, d) == ~MatchesAny(d, c.session_folder)

\* lines 337-338: the test that keeps d in dirnames
KeepFolder(c, d) == ~MatchesAny(d, c.session_folder) /\ ~MatchesAny(d, c.global_folder)

\* lines 342-346: one kept sub-folder becomes a node of the primary tree
ScanFolder(st, dirpath, d) ==
  LET full_path == join(dirpath, <<d>>)
      parent_node_id == DictGet(st.map, dirpath, 0)
      node_id == st.serial
  IN  [st EXCEPT !.tree = Append(@, Item(node_id, parent_node_id, d, "", Folder)),
                 !.serial = @ + 1,
                 !.map = DictSet(@, full_path, node_id),
                 !.tip = DictSet(@, node_id, full_path)]

\* lines 348-381: one file of filenames
ScanFile(c, st, dirpath, f) ==
  LET full_path == join(dirpath, <<f>>)
      ignored == is_ignored(c, f)
      status == FileStatus(c, f)
      separate == c.separate /\ ignored
      \* 373-376: the ignored tree's folder node, made when dirpath has no node yet
      lazy == separate /\ ~DictHas(st.map, dirpath)
      st1 == IF lazy
               THEN [st EXCEPT
                       !.ignored_tree = Append(@, Item(st.iserial, 0, basename(dirpath), "", Folder)),
                       !.iserial = @ + 1,
                       !.map = DictSet(@, dirpath, st.iserial)]
               ELSE st
      parent_id == DictGet(st1.map, dirpath, 0)
      st2 == [st1 EXCEPT !.classified = Append(@, <<full_path, status>>)]
  IN  IF c.hide /\ ignored /\ ~c.separate THEN st                       \* 357-358
      ELSE IF separate
        THEN IF ~ItemExists(st2.ignored_tree, parent_id)
               THEN [st2 EXCEPT !.raised = "TclError"]                  \* 378: Item not found
               ELSE [st2 EXCEPT
                       !.ignored_tree = Append(@, Item(st2.iserial, parent_id, f, status, splitext1(f))),
                       !.iserial = @ + 1,
                       !.tip = DictSet(@, st2.iserial, full_path)]
        ELSE IF ~ItemExists(st2.tree, parent_id)
               THEN [st2 EXCEPT !.raised = "TclError"]
               ELSE [st2 EXCEPT
                       !.tree = Append(@, Item(st2.serial, parent_id, f, status, splitext1(f))),
                       !.serial = @ + 1,
                       !.tip = DictSet(@, st2.serial, full_path),
                       !.master = IF ignored THEN @ ELSE Append(@, st2.serial)]

RECURSIVE ScanFolders(_, _, _, _)
ScanFolders(st, dirpath, dirnames, k) ==
  IF k > Len(dirnames) THEN st
  ELSE ScanFolders(ScanFolder(st, dirpath, dirnames[k]), dirpath, dirnames, k + 1)

RECURSIVE ScanFiles(_, _, _, _, _)
ScanFiles(c, st, dirpath, filenames, k) ==
  IF k > Len(filenames) \/ st.raised # "" THEN st
  ELSE ScanFiles(c, ScanFile(c, st, dirpath, filenames[k]), dirpath, filenames, k + 1)

\* lines 334-383: os.walk(root_path, topdown=True) and the loop body.  os.walk
\* yields a directory, then walks the entries left in dirnames in order; a
\* directory it cannot list yields nothing (onerror is None).
RECURSIVE Walk(_, _, _)
RECURSIVE WalkInto(_, _, _, _, _)
Walk(c, st, rel) ==
  IF st.raised # "" \/ ~c.fs[rel].readable THEN st
  ELSE LET dirpath == join(c.root, rel)
           dirnames == SelectSeq(c.fs[rel].dirnames, LAMBDA d : KeepFolder(c, d))
           st1 == ScanFolders(st, dirpath, dirnames, 1)
           st2 == ScanFiles(c, st1, dirpath, c.fs[rel].filenames, 1)
       IN  WalkInto(c, st2, rel, dirnames, 1)
WalkInto(c, st, rel, dirnames, k) ==
  IF k > Len(dirnames) \/ st.raised # "" THEN st
  ELSE WalkInto(c, Walk(c, st, Append(rel, dirnames[k])), rel, dirnames, k + 1)

----------------------------------------------------------------------------
(* UIManager.filter_tree *)

\* lines 397-401: the walk from a file's folder up to the root folder.  The
\* path was lowered on line 393 and root_folder is compared as it is; the
\* dirname of "/" is "/", so a walk that passes the root never ends.
RECURSIVE RebuildHierarchy(_, _, _)
RebuildHierarchy(c, st, parent_path) ==
  IF parent_path = <<>> \/ parent_path = c.root THEN st
  ELSE LET st1 == IF parent_path \notin DictValues(st.tip)
                    THEN [st EXCEPT
                            !.tree = Append(@, Item(st.serial, 0, basename(parent_path), "", Folder)),
                            !.serial = @ + 1,
                            !.tip = DictSet(@, st.serial, parent_path)]
                    ELSE st
       IN  IF dirname(parent_path) = parent_path
             THEN [st1 EXCEPT !.hung = TRUE]
             ELSE RebuildHierarchy(c, st1, dirname(parent_path))

\* lines 387-403.  Line 390 deletes every item of the primary tree, so for
\* the first cached node either line 394 (tree.item of a deleted item, when
\* the search text is not in the path) or line 403 (tree.item of a deleted
\* item, and ** of a tuple) raises.
filter_tree(c, st) ==
  LET search_text == Lower(c.search)
      cleared == [st EXCEPT !.tree = <<>>]
  IN  IF st.master = <<>> THEN cleared
      ELSE LET node_id == st.master[1]
               path == LowerPath(DictGet(st.tip, node_id, <<>>))
           IN  IF ~DictHas(st.tip, node_id) THEN cleared
               ELSE IF ~InPath(search_text, path)
                 THEN [cleared EXCEPT !.raised = "TclError"]
               ELSE LET st1 == RebuildHierarchy(c, cleared, dirname(path))
                    IN  IF st1.hung THEN st1 ELSE [st1 EXCEPT !.raised = "TclError"]

----------------------------------------------------------------------------
(* populate_file_tree as a whole: the configuration it reads, its result *)

ScanConfig(root, ftypes, sfolder, sfile, gfolder, gfile, separate, hide, search) ==
  LET valid == sfolder.ok /\ sfile.ok                                   \* 319-324
  IN  [fs |-> fs, root |-> root, extensions |-> Extensions(ftypes),
       session_folder |-> IF valid THEN sfolder.pats ELSE <<>>,
       session_file |-> IF valid THEN sfile.pats ELSE <<>>,
       invalid |-> ~valid,
       global_folder |-> gfolder, global_file |-> gfile,
       separate |-> separate, hide |-> hide, search |-> search]

EmptyScan ==
  [tree |-> <<>>, ignored_tree |-> <<>>, tip |-> <<>>, master |-> <<>>, map |-> <<>>,
   classified |-> <<>>, serial |-> 1, iserial |-> 1, raised |-> "", hung |-> FALSE,
   warned |-> FALSE]

populate_file_tree(c) ==
  IF c.root = <<>> THEN EmptyScan                                       \* 316-317
  ELSE LET st0 == [EmptyScan EXCEPT
                     !.warned = c.invalid,
                     !.tree = <<Item(1, 0, basename(c.root), "", Folder)>>, \* 330-332
                     !.serial = 2,
                     !.map = <<<<c.root, 1>>>>,
                     !.tip = <<<<1, c.root>>>>]
           st1 == Walk(c, st0, <<>>)
       IN  IF st1.raised # "" THEN st1 ELSE filter_tree(c, st1)         \* 385

\* what the handler that scanned told the user
ScanReport(st) ==
  (IF st.warned THEN <<"Invalid Patterns">> ELSE <<>>) \o
  (IF st.raised # "" THEN <<st.raised>> ELSE <<>>)

----------------------------------------------------------------------------
(* FileConsolidatorApp._collect_included_files *)

\* lines 128-132: the item's text after the text of each ancestor
RECURSIVE path_parts(_, _)
path_parts(t, iid) ==
  LET it == ItemOf(t, iid)
  IN  IF it.parent = 0 THEN <<it.text>> ELSE Append(path_parts(t, it.parent), it.text)

RECURSIVE collect_included_files(_, _, _, _)
collect_included_files(t, root, parent_ids, file_list) ==
  IF parent_ids = <<>> THEN file_list
  ELSE LET child_id == Head(parent_ids)
           values == ItemOf(t, child_id)
           found ==
             IF values.status = "Included" /\ values.type # Folder
               THEN Append(file_list, join(root, path_parts(t, child_id)))
             ELSE IF values.type = Folder
               THEN collect_included_files(t, root, get_children(t, child_id), file_list)
             ELSE file_list
       IN  collect_included_files(t, root, Tail(parent_ids), found)

\* line 68-69: files_to_process
FilesToProcess == collect_included_files(tree, root_folder, get_children(tree, 0), <<>>)

----------------------------------------------------------------------------
(* Initial state: FileConsolidatorApp.__init__ after ConfigHandler.load_settings *)

\* last_session_settings of the configuration file, or _set_defaults (the
\* session lists start as copies of the global lists)
SessionConfigs(gfolder, gfile) ==
  { <<Patterns(gfolder), Patterns(gfile)>>,
    <<Patterns(<<>>), Patterns(<<>>)>>,
    <<Patterns(<<proj>>), Patterns(<<pat_pyc, a_py>>)>>,
    <<InvalidPatterns, Patterns(<<>>)>> }

\* custom_global_ignores of the configuration file, or the defaults
GlobalConfigs ==
  { <<DEFAULT_GLOBAL_IGNORE_FOLDERS, DEFAULT_GLOBAL_IGNORE_FILES>>,
    <<<<>>, <<b_pyc>>>> }

KnownFormats == {"TXT", "PDF", "DOCX", "PPTX"}
\* output_format of a configuration file or profile is any string
Formats == KnownFormats \cup {"XLSX"}

DefaultFileTypes == <<ext_py, ext_txt, ext_md>>                         \* main.py 37

Status(kind, arg) == [kind |-> kind, arg |-> arg]
NoCompletion == [shown |-> FALSE, text |-> "", consolidated |-> 0, total |-> 0, error_count |-> 0]
\* no "Processing Errors" window, nothing exported
NoErrorLog == [open |-> FALSE, text |-> <<>>, exported |-> [written |-> FALSE, errors |-> <<>>]]
NoRequest == [file_paths |-> <<>>, output_filename |-> <<>>, output_format |-> ""]
\* the output file: on disk or not, its content, whether the strategy wrote it to
\* its end, whether opening or saving it raised
NoOutput == [exists |-> FALSE, saved |-> FALSE, content |-> <<>>, write_failed |-> FALSE]

InitRun ==
  /\ cancel_requested = FALSE
  /\ processing_errors = <<>>
  /\ processing_queue = <<>>
  /\ start_button = "normal"
  /\ cancel_button = "disabled"
  /\ view_errors_button = "disabled"
  /\ error_log = NoErrorLog
  /\ progress = [value |-> 0, maximum |-> 100]
  /\ completion = NoCompletion

InitWorker ==
  /\ pc = "idle"
  /\ request = NoRequest
  /\ strategy = "none"
  /\ idx = 0
  /\ output = NoOutput
  /\ writer = <<>>
  /\ temp_pdfs = <<>>
  /\ office = [word |-> FALSE, powerpoint |-> FALSE]
  /\ disk_temps = {}

\* the widgets and maps before the first scan (UIManager.__init__: root_folder
\* is empty, so populate_file_tree returns on line 317)
InitWidgets ==
  /\ root_folder = <<>>
  /\ filter_var = <<>>
  /\ show_ignored_separately = FALSE
  /\ hide_ignored = FALSE
  /\ hide_check_state = "normal"
  /\ tree = <<>>
  /\ ignored_tree = <<>>
  /\ tree_item_paths = <<>>
  /\ all_tree_items_master_list = <<>>
  /\ classified = <<>>
  /\ ui_hung = FALSE
  /\ last_report = <<>>
  /\ status_label = IF OFFICE_INSTALLED THEN Status("Ready.", 0)
                    ELSE Status("Warning: MS Office not detected", 0)  \* main.py 56-57

\* app_config.json as save_settings writes it (117-131); recent_folders and
\* theme are left out.  folder_ignores and file_ignores are JSON values: a list of
\* strings, or (ok = FALSE) a value whose str() is no Python literal
ConfigFile(last_session_settings, custom_global_ignores) ==
  [exists |-> TRUE, last_session_settings |-> last_session_settings,
   custom_global_ignores |-> custom_global_ignores]

\* ConfigHandler.load_settings and _set_defaults: the settings a start gets
\* from the file; str() of a list of strings is the text literal_eval reads back
load_settings(cf) ==
  IF cf.exists
    THEN [file_types |-> cf.last_session_settings.file_types,
          output_format |-> cf.last_session_settings.output_format,
          folder_ignore_patterns |-> cf.last_session_settings.folder_ignores,
          file_ignore_patterns |-> cf.last_session_settings.file_ignores,
          include_headers |-> cf.last_session_settings.include_headers,
          global_folder_ignores |-> cf.custom_global_ignores.folders,
          global_file_ignores |-> cf.custom_global_ignores.files]
    ELSE [file_types |-> DefaultFileTypes, output_format |-> "TXT",
          folder_ignore_patterns |-> Patterns(DEFAULT_GLOBAL_IGNORE_FOLDERS),
          file_ignore_patterns |-> Patterns(DEFAULT_GLOBAL_IGNORE_FILES),
          include_headers |-> TRUE,
          global_folder_ignores |-> DEFAULT_GLOBAL_IGNORE_FOLDERS,
          global_file_ignores |-> DEFAULT_GLOBAL_IGNORE_FILES]

\* the application runs, and app_config.json is the file its settings were
\* loaded from
InitConfigFile ==
  /\ running = TRUE
  /\ config_file = ConfigFile(
       [file_types |-> file_types, output_format |-> output_format,
        folder_ignores |-> folder_ignore_patterns, file_ignores |-> file_ignore_patterns,
        include_headers |-> include_headers],
       [folders |-> global_folder_ignores, files |-> global_file_ignores])

Init ==
  /\ os_nt \in BOOLEAN
  /\ OFFICE_INSTALLED \in BOOLEAN
  /\ OFFICE_INSTALLED => os_nt                      \* comtypes exists on Windows only
  /\ fs \in FileSystems
  /\ file_types = DefaultFileTypes
  /\ output_format \in Formats
  /\ include_headers \in BOOLEAN
  /\ \E g \in GlobalConfigs :
       /\ global_folder_ignores = g[1]
       /\ global_file_ignores = g[2]
       /\ \E s \in SessionConfigs(g[1], g[2]) :
            /\ folder_ignore_patterns = s[1]
            /\ file_ignore_patterns = s[2]
  /\ InitWidgets
  /\ InitRun
  /\ InitWorker
  /\ InitConfigFile

----------------------------------------------------------------------------
(* Control side: the handlers that scan *)

\* the configuration a scan started now would read
CurrentConfig ==
  ScanConfig(root_folder, file_types, folder_ignore_patterns, file_ignore_patterns,
             global_folder_ignores, global_file_ignores, show_ignored_separately,
             hide_ignored, filter_var)

\* the scan's result stored in the widgets and maps
ApplyScan(st) ==
  /\ tree' = st.tree
  /\ ignored_tree' = st.ignored_tree
  /\ tree_item_paths' = st.tip
  /\ all_tree_items_master_list' = st.master
  /\ classified' = st.classified
  /\ ui_hung' = st.hung
  /\ last_report' = ScanReport(st)

\* UIManager.set_root_folder (select_root_folder, handle_drop, the recent menu)
set_root_folder(folder_path) ==
    /\ running /\ ~ui_hung
    /\ root_folder' = folder_path
    /\ \E st \in {populate_file_tree([CurrentConfig EXCEPT !.root = folder_path])} :
         ApplyScan(st)
    /\ UNCHANGED <<os_nt, OFFICE_INSTALLED, fs, config_file, running, file_types, output_format, include_headers,
                   filter_var, folder_ignore_patterns, file_ignore_patterns,
                   global_folder_ignores, global_file_ignores, show_ignored_separately,
                   hide_ignored, hide_check_state, status_label, runVars0, workerVars>>

\* the variables a scan leaves alone, but for those its handler sets
ScanFrame == <<os_nt, OFFICE_INSTALLED, fs, config_file, running, runVars0, workerVars>>

\* UIManager._update_view_options: the "Separate Ignored" check box was clicked
update_view_options ==
  /\ running /\ ~ui_hung
  /\ show_ignored_separately' = ~show_ignored_separately
  /\ IF show_ignored_separately'
       THEN hide_check_state' = "disabled" /\ hide_ignored' = FALSE
       ELSE hide_check_state' = "normal" /\ hide_ignored' = hide_ignored
  /\ \E st \in {populate_file_tree([CurrentConfig EXCEPT
                                        !.separate = show_ignored_separately',
                                        !.hide = hide_ignored'])} : ApplyScan(st)
  /\ UNCHANGED <<ScanFrame, root_folder, file_types, output_format, include_headers,
                 filter_var, folder_ignore_patterns, file_ignore_patterns,
                 global_folder_ignores, global_file_ignores, status_label>>

\* the "Hide Ignored" check box was clicked (command=populate_file_tree)
hide_check_clicked ==
  /\ running /\ ~ui_hung
  /\ hide_check_state = "normal"
  /\ hide_ignored' = ~hide_ignored
  /\ \E st \in {populate_file_tree([CurrentConfig EXCEPT !.hide = hide_ignored'])} :
       ApplyScan(st)
  /\ UNCHANGED <<ScanFrame, root_folder, file_types, output_format, include_headers,
                 filter_var, folder_ignore_patterns, file_ignore_patterns,
                 global_folder_ignores, global_file_ignores, show_ignored_separately,
                 hide_check_state, status_label>>

\* UIManager.populate_file_type_presets_menu: "Code Project", "Documents"
Presets == { <<ext_py, <<".","j","s">>, ext_md, ext_txt>>, <<ext_docx, ext_pdf, ext_txt>> }

\* UIManager.set_file_types_from_preset
set_file_types_from_preset(preset) ==
    /\ running /\ ~ui_hung
    /\ file_types' = preset
    /\ \E st \in {populate_file_tree([CurrentConfig EXCEPT !.extensions = Extensions(preset)])} :
         ApplyScan(st)
    /\ UNCHANGED <<ScanFrame, root_folder, output_format, include_headers,
                   filter_var, folder_ignore_patterns, file_ignore_patterns,
                   global_folder_ignores, global_file_ignores, show_ignored_separately,
                   hide_ignored, hide_check_state, status_label>>

\* UIManager.suggest_extensions: the suggestion for a format
Suggestions(fmt) ==
  CASE fmt = "TXT" -> <<ext_txt, ext_py, ext_md>>
    [] fmt = "PDF" -> IF OFFICE_INSTALLED THEN <<ext_pdf, ext_docx, ext_pptx>> ELSE <<ext_pdf>>
    [] fmt = "DOCX" -> <<ext_docx>>
    [] fmt = "PPTX" -> <<ext_pptx>>
    [] OTHER -> <<>>

\* a format was picked in the read-only combo box, then suggest_extensions
suggest_extensions(fmt, yes) ==
    /\ running /\ ~ui_hung
    /\ output_format' = fmt
    /\ IF Suggestions(fmt) # <<>> /\ file_types # Suggestions(fmt) /\ yes
         THEN /\ file_types' = Suggestions(fmt)
              /\ \E st \in {populate_file_tree(
                      [CurrentConfig EXCEPT !.extensions = Extensions(Suggestions(fmt))])} :
                   ApplyScan(st)
         ELSE UNCHANGED <<file_types, tree, ignored_tree, tree_item_paths,
                          all_tree_items_master_list, classified, ui_hung, last_report>>
    /\ UNCHANGED <<ScanFrame, root_folder, include_headers,
                   filter_var, folder_ignore_patterns, file_ignore_patterns,
                   global_folder_ignores, global_file_ignores, show_ignored_separately,
                   hide_ignored, hide_check_state, status_label>>

\* the "Include File Headers" check box (UIManager.py 172)
toggle_include_headers ==
  /\ running /\ ~ui_hung
  /\ include_headers' = ~include_headers
  /\ UNCHANGED <<os_nt, OFFICE_INSTALLED, fs, config_file, running, root_folder, file_types, output_format,
                 filter_var, folder_ignore_patterns, file_ignore_patterns,
                 global_folder_ignores, global_file_ignores, show_ignored_separately,
                 hide_ignored, hide_check_state, tree, ignored_tree, tree_item_paths,
                 all_tree_items_master_list, classified, ui_hung, last_report,
                 runVars, workerVars>>

\* text typed into the search entry: the variable is written, and the trace
\* calls filter_tree(name, index, mode), which takes no argument (line 74, 387)
SearchTexts == {<<>>, <<"z">>}
search_typed(text) ==
    /\ running /\ ~ui_hung
    /\ filter_var' = text
    /\ last_report' = <<"TypeError: filter_tree() takes 1 positional argument">>
    /\ UNCHANGED <<os_nt, OFFICE_INSTALLED, fs, config_file, running, root_folder, file_types, output_format,
                   include_headers, folder_ignore_patterns, file_ignore_patterns,
                   global_folder_ignores, global_file_ignores, show_ignored_separately,
                   hide_ignored, hide_check_state, tree, ignored_tree, tree_item_paths,
                   all_tree_items_master_list, classified, ui_hung,
                   runVars, workerVars>>

\* the item ids a tree can have selected
ItemIds(t) == {t[i].iid : i \in 1..Len(t)}

\* list.remove(x): the first x is taken out
RemoveFirst(l, x) ==
  LET k == CHOOSE i \in 1..Len(l) : l[i] = x /\ \A j \in 1..(i - 1) : l[j] # x
  IN  SubSeq(l, 1, k - 1) \o SubSeq(l, k + 1, Len(l))

\* lines 439-440, 461-462: eval of the two texts; a text that is no Python
\* expression raises, and nothing catches it
EvalRaises == ~folder_ignore_patterns.ok \/ ~file_ignore_patterns.ok

\* the handler ends at the eval: Tk prints the traceback, nothing is changed
EvalTraceback ==
  /\ last_report' = <<"SyntaxError">>
  /\ UNCHANGED <<os_nt, OFFICE_INSTALLED, fs, config_file, running, root_folder, file_types, output_format,
                 include_headers, filter_var, folder_ignore_patterns, file_ignore_patterns,
                 global_folder_ignores, global_file_ignores, show_ignored_separately,
                 hide_ignored, hide_check_state, tree, ignored_tree, tree_item_paths,
                 all_tree_items_master_list, classified, ui_hung, runVars, workerVars>>

\* lines 451-453, 473-475: the lists are written back as text and the tree is
\* scanned again
SetSessionLists(folder_patterns_list, file_patterns_list) ==
  /\ folder_ignore_patterns' = Patterns(folder_patterns_list)
  /\ file_ignore_patterns' = Patterns(file_patterns_list)
  /\ \E st \in {populate_file_tree(
                  ScanConfig(root_folder, file_types, Patterns(folder_patterns_list),
                             Patterns(file_patterns_list), global_folder_ignores,
                             global_file_ignores, show_ignored_separately, hide_ignored,
                             filter_var))} : ApplyScan(st)
  /\ UNCHANGED <<ScanFrame, root_folder, file_types, output_format, include_headers,
                 filter_var, global_folder_ignores, global_file_ignores,
                 show_ignored_separately, hide_ignored, hide_check_state, status_label>>

\* UIManager.ignore_selected with one item of the primary tree selected
ignore_selected(item_id) ==
  /\ running /\ ~ui_hung
  /\ item_id \in ItemIds(tree)                                          \* 436-437
  /\ IF EvalRaises THEN EvalTraceback
     ELSE LET item_text == ItemOf(tree, item_id).text
              is_folder == ItemOf(tree, item_id).type = Folder
              folder_patterns_list == folder_ignore_patterns.pats
              file_patterns_list == file_ignore_patterns.pats
          IN  IF is_folder
                THEN SetSessionLists(
                       IF \E i \in 1..Len(folder_patterns_list) : folder_patterns_list[i] = item_text
                         THEN folder_patterns_list
                         ELSE Append(folder_patterns_list, item_text),
                       file_patterns_list)
                ELSE SetSessionLists(
                       folder_patterns_list,
                       IF \E i \in 1..Len(file_patterns_list) : file_patterns_list[i] = item_text
                         THEN file_patterns_list
                         ELSE Append(file_patterns_list, item_text))

\* UIManager.unignore_selected with one item selected, in the primary tree or,
\* when the primary tree has no selection, in the ignored tree
unignore_selected(in_primary, item_id) ==
  LET tree_widget == IF in_primary THEN tree ELSE ignored_tree          \* 457-458
  IN  /\ running /\ ~ui_hung
      /\ item_id \in ItemIds(tree_widget)
      /\ IF EvalRaises THEN EvalTraceback
         ELSE LET item_text == ItemOf(tree_widget, item_id).text
                  is_folder == ItemOf(tree_widget, item_id).type = Folder
                  folder_patterns_list == folder_ignore_patterns.pats
                  file_patterns_list == file_ignore_patterns.pats
              IN  IF is_folder
                    THEN SetSessionLists(
                           IF \E i \in 1..Len(folder_patterns_list) : folder_patterns_list[i] = item_text
                             THEN RemoveFirst(folder_patterns_list, item_text)
                             ELSE folder_patterns_list,
                           file_patterns_list)
                    ELSE SetSessionLists(
                           folder_patterns_list,
                           IF \E i \in 1..Len(file_patterns_list) : file_patterns_list[i] = item_text
                             THEN RemoveFirst(file_patterns_list, item_text)
                             ELSE file_patterns_list)

\* ConfigHandler.save_settings: the file it writes.  Lines 110-115: eval of
\* the two texts, the global lists when either raises
save_settings ==
  LET raises == ~folder_ignore_patterns.ok \/ ~file_ignore_patterns.ok
      folder_ignores == IF raises THEN global_folder_ignores ELSE folder_ignore_patterns.pats
      file_ignores == IF raises THEN global_file_ignores ELSE file_ignore_patterns.pats
  IN  ConfigFile([file_types |-> file_types, output_format |-> output_format,
                  folder_ignores |-> Patterns(folder_ignores),
                  file_ignores |-> Patterns(file_ignores),
                  include_headers |-> include_headers],
                 [folders |-> global_folder_ignores, files |-> global_file_ignores])

\* FileConsolidatorApp.on_closing: the settings are saved (or the write fails,
\* line 135) and the window is destroyed
on_closing ==
  /\ running /\ ~ui_hung
  /\ \E written \in BOOLEAN : config_file' = IF written THEN save_settings ELSE config_file
  /\ running' = FALSE
  /\ UNCHANGED <<os_nt, OFFICE_INSTALLED, fs, root_folder, file_types, output_format,
                 include_headers, filter_var, folder_ignore_patterns, file_ignore_patterns,
                 global_folder_ignores, global_file_ignores, show_ignored_separately,
                 hide_ignored, hide_check_state, tree, ignored_tree, tree_item_paths,
                 all_tree_items_master_list, classified, ui_hung, last_report,
                 runVars, workerVars>>

\* the application is started again: FileConsolidatorApp.__init__ with
\* ConfigHandler.__init__ (load_settings) and UIManager.__init__.  The files on
\* disk stay as the run before left them.
app_init ==
  LET s == load_settings(config_file)
  IN  /\ ~running
      /\ running' = TRUE
      /\ file_types' = s.file_types
      /\ output_format' = s.output_format
      /\ folder_ignore_patterns' = s.folder_ignore_patterns
      /\ file_ignore_patterns' = s.file_ignore_patterns
      /\ include_headers' = s.include_headers
      /\ global_folder_ignores' = s.global_folder_ignores
      /\ global_file_ignores' = s.global_file_ignores
      /\ root_folder' = <<>>
      /\ filter_var' = <<>>
      /\ show_ignored_separately' = FALSE
      /\ hide_ignored' = FALSE
      /\ hide_check_state' = "normal"
      /\ tree' = <<>>
      /\ ignored_tree' = <<>>
      /\ tree_item_paths' = <<>>
      /\ all_tree_items_master_list' = <<>>
      /\ classified' = <<>>
      /\ ui_hung' = FALSE
      /\ last_report' = <<>>
      /\ status_label' = IF OFFICE_INSTALLED THEN Status("Ready.", 0)
                         ELSE Status("Warning: MS Office not detected", 0)
      /\ cancel_requested' = FALSE
      /\ processing_errors' = <<>>
      /\ processing_queue' = <<>>
      /\ start_button' = "normal"
      /\ cancel_button' = "disabled"
      /\ view_errors_button' = "disabled"
      /\ error_log' = NoErrorLog
      /\ progress' = [value |-> 0, maximum |-> 100]
      /\ completion' = NoCompletion
      /\ pc' = "idle"
      /\ request' = NoRequest
      /\ strategy' = "none"
      /\ idx' = 0
      /\ writer' = <<>>
      /\ temp_pdfs' = <<>>
      /\ office' = [word |-> FALSE, powerpoint |-> FALSE]
      /\ UNCHANGED <<os_nt, OFFICE_INSTALLED, fs, config_file, output, disk_temps>>

----------------------------------------------------------------------------
(* Control side: the run *)

OutputPath == <<Slash, <<"o","u","t">>>>

Msg(msg, value) == [msg |-> msg, value |-> value]
Err(kind, file) == [kind |-> kind, file |-> file]

\* main.py 76-81: a file the chosen format does not take
incompatible_found(fmt, files) ==
  \/ fmt = "DOCX" /\ \E i \in 1..Len(files) : ~EndsWith(Lower(basename(files[i])), ext_docx)
  \/ fmt = "PPTX" /\ \E i \in 1..Len(files) : ~EndsWith(Lower(basename(files[i])), ext_pptx)

\* the exception of file_type_info[1] when file_type_info is None (line 98)
NoneTypeError == "TypeError: 'NoneType' object is not subscriptable"

\* FileConsolidatorApp.start_consolidation, the command of the start button
start_consolidation(yes, output_filename) ==
    LET files_to_process == FilesToProcess
        returns(report) ==
          /\ last_report' = report
          /\ UNCHANGED <<runVars, workerVars>>
    IN
    /\ running /\ ~ui_hung
    /\ start_button = "normal"
    /\ IF root_folder = <<>> THEN returns(<<"Error">>)                   \* 63-66
       ELSE IF files_to_process = <<>> THEN returns(<<"No Files To Process">>)  \* 71-73
       ELSE IF incompatible_found(output_format, files_to_process) /\ ~yes
         THEN returns(<<"Incompatible Files Warning">>)                  \* 83-87
       ELSE IF output_format \notin KnownFormats
         THEN returns(<<NoneTypeError>>)             \* 95-98: file_type_info is None
       ELSE IF output_filename = <<>>
         THEN /\ status_label' = Status("Cancelled.", 0)                 \* 102-104
              /\ last_report' = <<>>
              /\ UNCHANGED <<runVars0, workerVars>>
       ELSE /\ start_button' = "disabled"                                \* 106-110
            /\ cancel_button' = "normal"
            /\ view_errors_button' = "disabled"
            /\ cancel_requested' = FALSE
            /\ processing_errors' = <<>>
            /\ last_report' = <<>>
            /\ request' = [file_paths |-> files_to_process,              \* 112-117
                           output_filename |-> output_filename,
                           output_format |-> output_format]
            /\ pc' = "process_files"
            /\ strategy' = "none"
            /\ idx' = 0
            /\ output' = NoOutput
            /\ writer' = <<>>
            /\ temp_pdfs' = <<>>
            /\ office' = [word |-> FALSE, powerpoint |-> FALSE]
            /\ disk_temps' = {}
            /\ UNCHANGED <<processing_queue, status_label, progress, completion, error_log>>
    /\ UNCHANGED <<os_nt, OFFICE_INSTALLED, fs, config_file, running, root_folder, file_types, output_format,
                   include_headers, filter_var, folder_ignore_patterns,
                   file_ignore_patterns, global_folder_ignores, global_file_ignores,
                   show_ignored_separately, hide_ignored, hide_check_state, tree,
                   ignored_tree, tree_item_paths, all_tree_items_master_list,
                   classified, ui_hung>>

\* FileConsolidatorApp.request_cancel, the command of the cancel button, answered yes
request_cancel ==
  /\ running /\ ~ui_hung
  /\ cancel_button = "normal"
  /\ cancel_requested' = TRUE
  /\ status_label' = Status("Cancellation requested...", 0)
  /\ UNCHANGED <<scanVars, processing_errors, processing_queue, start_button,
                 cancel_button, view_errors_button, progress, completion, error_log,
                 workerVars>>

\* UIManager.reset_ui_state
reset_ui_state(u) ==
  [u EXCEPT !.progress.value = 0,
            !.start_button = "normal",
            !.cancel_button = "disabled",
            !.cancel_requested = FALSE,
            !.status_label =
               IF @.kind \in {"Operation cancelled.", "Cancellation requested..."}
                 THEN @ ELSE Status("Ready.", 0)]

\* utils.show_completion_message(parent, total_files, error_count, output_filename)
show_completion_message(total_files, error_count) ==
  [shown |-> TRUE, text |-> "Success! Consolidated",
   consolidated |-> total_files - error_count, total |-> total_files,
   error_count |-> error_count]

\* handle_message with the buttons reset at the first message of a run
handle_message_ResetsEarly(u, m) ==
  CASE m.msg = "status" -> [u EXCEPT !.status_label = m.value]
    [] m.msg = "progress" -> [u EXCEPT !.progress.value = m.value]
    [] m.msg = "max_progress" -> reset_ui_state([u EXCEPT !.progress.maximum = m.value])
    [] m.msg = "done" ->
         [reset_ui_state(u) EXCEPT !.completion =
            show_completion_message(Len(m.value[1]), Len(processing_errors))]

\* main.py 145-158: one message taken from the queue
handle_message(u, m) ==
  CASE m.msg = "status" -> [u EXCEPT !.status_label = m.value]
    [] m.msg = "progress" -> [u EXCEPT !.progress.value = m.value]
    [] m.msg = "max_progress" -> [u EXCEPT !.progress.maximum = m.value]
    [] m.msg = "done" ->
         LET r == reset_ui_state(u)
         IN  IF processing_errors # <<>>
               THEN [r EXCEPT !.view_errors_button = "normal",
                              !.completion = show_completion_message(
                                  Len(m.value[1]), Len(processing_errors))]
               ELSE [r EXCEPT !.completion = show_completion_message(Len(m.value), 0)]

RECURSIVE drain(_, _)
drain(u, q) == IF q = <<>> THEN u ELSE drain(handle_message(u, Head(q)), Tail(q))

\* FileConsolidatorApp.check_queue: every message that is in the queue
check_queue ==
  LET u == drain([status_label |-> status_label, progress |-> progress,
                  start_button |-> start_button, cancel_button |-> cancel_button,
                  cancel_requested |-> cancel_requested,
                  view_errors_button |-> view_errors_button,
                  completion |-> completion], processing_queue)
  IN  /\ running /\ ~ui_hung
      /\ processing_queue # <<>>
      /\ processing_queue' = <<>>
      /\ status_label' = u.status_label
      /\ progress' = u.progress
      /\ start_button' = u.start_button
      /\ cancel_button' = u.cancel_button
      /\ cancel_requested' = u.cancel_requested
      /\ view_errors_button' = u.view_errors_button
      /\ completion' = u.completion
      /\ UNCHANGED <<scanVars, processing_errors, error_log, workerVars>>

\* UIManager.show_errors, the command of the "View Errors" button, and
\* utils.show_error_log: the window shows the errors of now; the command of its
\* "Export Log..." button keeps the list itself (utils.py 65)
show_errors ==
  /\ running /\ ~ui_hung
  /\ view_errors_button = "normal"
  /\ IF processing_errors = <<>>
       THEN UNCHANGED error_log                                         \* 501
       ELSE error_log' = [error_log EXCEPT !.open = TRUE, !.text = processing_errors]
  /\ UNCHANGED <<scanVars, cancel_requested, processing_errors, processing_queue,
                 start_button, cancel_button, view_errors_button, status_label, progress,
                 completion, workerVars>>

\* utils.export_errors_to_file(errors), the command of "Export Log...", with a
\* file chosen: the list is read when the button is pressed
export_errors_to_file ==
  /\ running /\ ~ui_hung
  /\ error_log.open
  /\ error_log' = [error_log EXCEPT !.exported = [written |-> TRUE, errors |-> processing_errors]]
  /\ UNCHANGED <<scanVars, cancel_requested, processing_errors, processing_queue,
                 start_button, cancel_button, view_errors_button, status_label, progress,
                 completion, workerVars>>

\* the "Processing Errors" window is closed
close_error_log ==
  /\ running /\ ~ui_hung
  /\ error_log.open
  /\ error_log' = [error_log EXCEPT !.open = FALSE, !.text = <<>>]
  /\ UNCHANGED <<scanVars, cancel_requested, processing_errors, processing_queue,
                 start_button, cancel_button, view_errors_button, status_label, progress,
                 completion, workerVars>>

----------------------------------------------------------------------------
(* Worker: FileProcessor.process_files and merge_documents *)

\* the attributes of a FileProcessor: the functions of the class body (lines
\* 17-77); merge_as_pdf is a function of the module (line 79), and
\* merge_as_docx and merge_as_pptx are functions local to it (lines 142, 171)
FileProcessorAttributes == {"process_files", "merge_documents", "merge_as_text"}

\* lines 44-49: the attributes the dict display looks up on self
merge_function_map ==
  [TXT |-> "merge_as_text", PDF |-> "merge_as_pdf",
   DOCX |-> "merge_as_docx", PPTX |-> "merge_as_pptx"]

\* building merge_function_map raises AttributeError
map_raises ==
  \E k \in DOMAIN merge_function_map : merge_function_map[k] \notin FileProcessorAttributes

WorkerFrame == <<scanVars, cancel_requested, start_button, cancel_button,
                 view_errors_button, status_label, progress, completion, error_log>>

\* line 31
process_files_begin ==
  /\ pc = "process_files"
  /\ processing_queue' = Append(processing_queue, Msg("max_progress", Len(request.file_paths)))
  /\ pc' = "merge_documents"
  /\ UNCHANGED <<WorkerFrame, processing_errors, request, strategy, idx, output, writer,
                 temp_pdfs, office, disk_temps>>

\* lines 32-35 and 44-53: the call of merge_documents up to the strategy's
\* first statement, or the exception that ends it
merge_documents_dispatch ==
  /\ pc = "merge_documents"
  /\ IF map_raises
       THEN /\ processing_errors' = Append(processing_errors, Err("critical", 0))
            /\ pc' = "finally"
            /\ UNCHANGED strategy
       ELSE /\ UNCHANGED processing_errors
            /\ IF request.output_format \in KnownFormats
                 THEN /\ strategy' = request.output_format
                      /\ pc' = "strategy"
                 ELSE /\ UNCHANGED strategy
                      /\ pc' = "merged"
  /\ UNCHANGED <<WorkerFrame, processing_queue, request, idx, output, writer,
                 temp_pdfs, office, disk_temps>>

\* lines 36-38
process_files_finally ==
  /\ pc = "finally"
  /\ processing_queue' = Append(processing_queue,
                                Msg("done", <<request.file_paths, request.output_filename>>))
  /\ pc' = "idle"
  /\ UNCHANGED <<WorkerFrame, processing_errors, request, strategy, idx, output, writer,
                 temp_pdfs, office, disk_temps>>


----------------------------------------------------------------------------
(* Worker: the four merge functions.  One action is one pass of a loop or  *)
(* one block around it; what the file system and Office answer is chosen   *)
(* in the action.                                                          *)

file_paths == request.file_paths

\* a strategy that was called on its own has no frame of merge_documents
called_alone == request.output_format = ""

\* where the return of a strategy leads: line 55, or the caller
Return == IF called_alone THEN "returned" ELSE "merged"

\* RaisePc without the except and finally clauses of process_files
RaisePc_Uncaught == "raised"

\* where an exception that leaves a strategy leads: lines 34-35, or the caller
RaisePc == IF called_alone THEN "raised" ELSE "finally"
RaiseErrors == IF called_alone THEN processing_errors
               ELSE Append(processing_errors, Err("critical", 0))

\* lines 125, 168, 201: the test before the output is saved
SavesAlways(cancelled) == TRUE
SavesAfterLoop(cancelled) == ~cancelled

\* Announce with the index of enumerate as the progress value
Announce_ZeroBased(q, kind, path, i) ==
  q \o <<Msg("status", Status(kind, basename(path))), Msg("progress", i)>>

\* lines 67-68, 90-91, 150-151, 176-177
Announce(q, kind, path, i) ==
  q \o <<Msg("status", Status(kind, basename(path))), Msg("progress", i + 1)>>

\* what merge_as_text writes
Header(path) == <<"header", path>>
Content(path) == <<"content", path>>
Newline == <<"newline">>
\* the placeholder of line 76 left out: an empty line in its place
ErrorLine_AsNewline(path) == <<"newline">>

ErrorLine(path) == <<"error", path>>

\* line 64: the output file is opened for writing
merge_as_text_open ==
  /\ pc = "strategy" /\ strategy = "TXT"
  /\ \E opened \in BOOLEAN :
       IF opened
         THEN /\ output' = [NoOutput EXCEPT !.exists = TRUE]
              /\ idx' = 0
              /\ pc' = "text_loop"
              /\ UNCHANGED processing_errors
         ELSE /\ output' = [output EXCEPT !.write_failed = TRUE]
              /\ processing_errors' = RaiseErrors
              /\ pc' = RaisePc
              /\ UNCHANGED idx
  /\ UNCHANGED <<WorkerFrame, processing_queue, request, strategy, writer, temp_pdfs,
                 office, disk_temps>>

\* lines 65-77: one pass of the loop, or its end and the end of the with block
merge_as_text_file ==
  /\ pc = "text_loop"
  /\ IF idx = Len(file_paths)
       THEN /\ output' = [output EXCEPT !.saved = TRUE]
            /\ pc' = Return
            /\ UNCHANGED <<idx, processing_errors, processing_queue>>
       ELSE IF cancel_requested
         THEN /\ pc' = Return                                           \* 66
              /\ UNCHANGED <<idx, output, processing_errors, processing_queue>>
         ELSE LET path == file_paths[idx + 1]
                  head == IF include_headers THEN <<Header(path)>> ELSE <<>>
              IN  /\ processing_queue' = Announce(processing_queue, "Processing:", path, idx)
                  /\ \E read \in BOOLEAN :
                       IF read
                         THEN /\ output' = [output EXCEPT !.content =
                                              @ \o head \o <<Content(path), Newline>>]
                              /\ UNCHANGED processing_errors
                         ELSE /\ output' = [output EXCEPT !.content =
                                              @ \o head \o <<ErrorLine(path)>>]
                              /\ processing_errors' =
                                   Append(processing_errors, Err("Error reading file", path))
                  /\ idx' = idx + 1
                  /\ UNCHANGED pc
  /\ UNCHANGED <<WorkerFrame, request, strategy, writer, temp_pdfs, office, disk_temps>>

\* lines 99, 108: the name of a converted file
TempPdf(path, i) ==
  Append(dirname(path), splitext0(basename(path)) \o <<"_">> \o Str(i) \o ext_pdf)

IsPdf(path) == EndsWith(Lower(basename(path)), ext_pdf)
IsWord(path) == EndsWith(Lower(basename(path)), ext_docx) \/ EndsWith(Lower(basename(path)), ext_doc)
IsPowerpoint(path) ==
  EndsWith(Lower(basename(path)), ext_pptx) \/ EndsWith(Lower(basename(path)), ext_ppt)

\* lines 81-86 (the warning of line 82 changes nothing)
merge_as_pdf_begin ==
  /\ pc = "strategy" /\ strategy = "PDF"
  /\ writer' = <<>>
  /\ temp_pdfs' = <<>>
  /\ office' = [word |-> FALSE, powerpoint |-> FALSE]
  /\ idx' = 0
  /\ pc' = "pdf_loop"
  /\ UNCHANGED <<WorkerFrame, processing_errors, processing_queue, request, strategy,
                 output, disk_temps>>

\* what can happen to one file of merge_as_pdf
\*   read: the PDF is read;  unreadable: open or PdfReader raises (120-123)
\*   converted: Office writes the PDF;  no_office: CreateObject raises (98, 107)
\*   not_converted: Open or SaveAs raises, no PDF is written (100-101, 109-110)
\*   not_closed: Close raises after the PDF was written (102, 111)
\*   unsupported: lines 114-116
PdfOutcomes(path, app) ==
  IF IsPdf(path) THEN {"read", "unreadable"}
  ELSE IF (IsWord(path) \/ IsPowerpoint(path)) /\ OFFICE_INSTALLED
    THEN {"converted", "not_converted", "not_closed"} \cup (IF app THEN {} ELSE {"no_office"})
  ELSE {"unsupported"}

\* lines 88-123: one pass of the loop, or the break, or its end
merge_as_pdf_file ==
  /\ pc = "pdf_loop"
  /\ IF idx = Len(file_paths) \/ cancel_requested
       THEN /\ pc' = "pdf_save"                                         \* 89
            /\ UNCHANGED <<idx, writer, temp_pdfs, office, disk_temps, processing_errors,
                           processing_queue>>
       ELSE LET path == file_paths[idx + 1]
                is_word == ~IsPdf(path) /\ IsWord(path)
                app == IF is_word THEN office.word ELSE office.powerpoint
                started == IF is_word THEN [office EXCEPT !.word = TRUE]
                           ELSE [office EXCEPT !.powerpoint = TRUE]
                kind == IF is_word THEN "Failed to convert DOCX" ELSE "Failed to convert PPTX"
                pdf_path == TempPdf(path, idx)
                q == Announce(processing_queue, "Converting:", path, idx)
                appending == Append(q, Msg("status", Status("Appending:", basename(path))))
                critical(errors) ==
                  Append(errors, Err("A critical error occurred during PDF merge", path))
            IN  \E outcome \in PdfOutcomes(path, app) :
                  CASE outcome = "read" ->
                         /\ writer' = Append(writer, path)
                         /\ processing_queue' = appending
                         /\ idx' = idx + 1
                         /\ UNCHANGED <<pc, temp_pdfs, office, disk_temps, processing_errors>>
                    [] outcome = "unreadable" ->
                         /\ processing_queue' = appending
                         /\ processing_errors' = critical(processing_errors)   \* 129-130
                         /\ pc' = "pdf_finally"
                         /\ UNCHANGED <<idx, writer, temp_pdfs, office, disk_temps>>
                    [] outcome = "converted" ->
                         /\ office' = started
                         /\ temp_pdfs' = Append(temp_pdfs, pdf_path)
                         /\ disk_temps' = disk_temps \cup {pdf_path}
                         /\ writer' = Append(writer, pdf_path)
                         /\ processing_queue' = appending
                         /\ idx' = idx + 1
                         /\ UNCHANGED <<pc, processing_errors>>
                    [] outcome = "no_office" ->
                         /\ processing_errors' = Append(processing_errors, Err(kind, path))
                         /\ processing_queue' = q
                         /\ idx' = idx + 1
                         /\ UNCHANGED <<pc, writer, temp_pdfs, office, disk_temps>>
                    [] outcome = "not_converted" ->
                         /\ office' = started
                         /\ processing_queue' = appending
                         /\ processing_errors' =
                              critical(Append(processing_errors, Err(kind, path)))
                         /\ pc' = "pdf_finally"
                         /\ UNCHANGED <<idx, writer, temp_pdfs, disk_temps>>
                    [] outcome = "not_closed" ->
                         /\ office' = started
                         /\ disk_temps' = disk_temps \cup {pdf_path}
                         /\ processing_errors' = Append(processing_errors, Err(kind, path))
                         /\ writer' = Append(writer, pdf_path)
                         /\ processing_queue' = appending
                         /\ idx' = idx + 1
                         /\ UNCHANGED <<pc, temp_pdfs>>
                    [] outcome = "unsupported" ->
                         /\ processing_errors' =
                              Append(processing_errors,
                                     Err("Skipped unsupported file for PDF merge", path))
                         /\ processing_queue' = q
                         /\ idx' = idx + 1
                         /\ UNCHANGED <<pc, writer, temp_pdfs, office, disk_temps>>
  /\ UNCHANGED <<WorkerFrame, request, strategy, output>>

\* lines 125-130
merge_as_pdf_save ==
  /\ pc = "pdf_save"
  /\ IF SavesAfterLoop(cancel_requested)
       THEN /\ processing_queue' =
                 Append(processing_queue, Msg("status", Status("Saving final PDF...", 0)))
            /\ \E written \in BOOLEAN :
                 IF written
                   THEN /\ output' = [exists |-> TRUE, saved |-> TRUE, content |-> writer,
                                      write_failed |-> FALSE]
                        /\ UNCHANGED processing_errors
                   ELSE /\ output' = [output EXCEPT !.write_failed = TRUE]
                        /\ processing_errors' =
                             Append(processing_errors,
                                    Err("A critical error occurred during PDF merge",
                                        request.output_filename))
       ELSE UNCHANGED <<output, processing_errors, processing_queue>>
  /\ pc' = "pdf_finally"
  /\ UNCHANGED <<WorkerFrame, request, strategy, idx, writer, temp_pdfs, office, disk_temps>>

\* lines 131-139: Office is quit, the converted files are removed
merge_as_pdf_finally ==
  /\ pc = "pdf_finally"
  /\ office' = [word |-> FALSE, powerpoint |-> FALSE]
  /\ \E kept \in SUBSET {temp_pdfs[i] : i \in 1..Len(temp_pdfs)} :
       /\ disk_temps' = (disk_temps \ {temp_pdfs[i] : i \in 1..Len(temp_pdfs)}) \cup kept
       /\ processing_errors' =
            processing_errors \o
              [i \in 1..Len(SelectSeq(temp_pdfs, LAMBDA t : t \in kept)) |->
                 Err("Could not remove temp file", SelectSeq(temp_pdfs, LAMBDA t : t \in kept)[i])]
  /\ pc' = Return
  /\ UNCHANGED <<WorkerFrame, processing_queue, request, strategy, idx, output, writer,
                 temp_pdfs>>

\* lines 144-146
merge_as_docx_begin ==
  /\ pc = "strategy" /\ strategy = "DOCX"
  /\ writer' = IF file_paths # <<>> /\ include_headers
                 THEN <<<<"heading", 0, <<>>>>>> ELSE <<>>
  /\ idx' = 0
  /\ pc' = "docx_loop"
  /\ UNCHANGED <<WorkerFrame, processing_errors, processing_queue, request, strategy,
                 output, temp_pdfs, office, disk_temps>>

\* lines 148-166: one pass of the loop, or the return, or its end
merge_as_docx_file ==
  /\ pc = "docx_loop"
  /\ IF idx = Len(file_paths)
       THEN /\ pc' = "docx_save"
            /\ UNCHANGED <<idx, writer, processing_errors, processing_queue>>
       ELSE IF cancel_requested
         THEN /\ pc' = Return                                           \* 149
              /\ UNCHANGED <<idx, writer, processing_errors, processing_queue>>
         ELSE LET path == file_paths[idx + 1]
                  before ==
                    (IF idx > 0 \/ ~include_headers THEN <<<<"page_break">>>> ELSE <<>>) \o
                    (IF include_headers THEN <<<<"heading", 1, basename(path)>>>> ELSE <<>>)
              IN  /\ processing_queue' = Announce(processing_queue, "Processing:", path, idx)
                  /\ IF EndsWith(Lower(basename(path)), ext_docx)
                       THEN \E opened \in BOOLEAN :
                              IF opened
                                THEN /\ writer' = writer \o before \o <<<<"body", path>>>>
                                     /\ UNCHANGED processing_errors
                                ELSE /\ writer' = writer \o before
                                     /\ processing_errors' =
                                          Append(processing_errors,
                                                 Err("Could not process DOCX file", path))
                       ELSE /\ processing_errors' =
                                 Append(processing_errors, Err("Skipped non-DOCX file", path))
                            /\ UNCHANGED writer
                  /\ idx' = idx + 1
                  /\ UNCHANGED pc
  /\ UNCHANGED <<WorkerFrame, request, strategy, output, temp_pdfs, office, disk_temps>>

\* lines 168-169 and 201-202: the master document is saved
save_master ==
  /\ IF SavesAfterLoop(cancel_requested)
       THEN \E written \in BOOLEAN :
              IF written
                THEN /\ output' = [exists |-> TRUE, saved |-> TRUE, content |-> writer,
                                   write_failed |-> FALSE]
                     /\ pc' = Return
                     /\ UNCHANGED processing_errors
                ELSE /\ output' = [output EXCEPT !.write_failed = TRUE]
                     /\ processing_errors' = RaiseErrors
                     /\ pc' = RaisePc
       ELSE /\ pc' = Return
            /\ UNCHANGED <<output, processing_errors>>
  /\ UNCHANGED <<WorkerFrame, processing_queue, request, strategy, idx, writer, temp_pdfs,
                 office, disk_temps>>

\* lines 168-169
merge_as_docx_save == pc = "docx_save" /\ save_master

\* line 173
merge_as_pptx_begin ==
  /\ pc = "strategy" /\ strategy = "PPTX"
  /\ writer' = <<>>
  /\ idx' = 0
  /\ pc' = "pptx_loop"
  /\ UNCHANGED <<WorkerFrame, processing_errors, processing_queue, request, strategy,
                 output, temp_pdfs, office, disk_temps>>

\* lines 174-199: one pass of the loop, or the return, or its end
\*   copied: every slide is copied;  image: a picture is not copied (191-194)
\*   partial: an exception after some slides were added;  unopened: line 181 raises
merge_as_pptx_file ==
  /\ pc = "pptx_loop"
  /\ IF idx = Len(file_paths)
       THEN /\ pc' = "pptx_save"
            /\ UNCHANGED <<idx, writer, processing_errors, processing_queue>>
       ELSE IF cancel_requested
         THEN /\ pc' = Return                                           \* 175
              /\ UNCHANGED <<idx, writer, processing_errors, processing_queue>>
         ELSE LET path == file_paths[idx + 1]
              IN  /\ processing_queue' = Announce(processing_queue, "Processing:", path, idx)
                  /\ IF EndsWith(Lower(basename(path)), ext_pptx)
                       THEN \E outcome \in {"copied", "image", "partial", "unopened"} :
                              CASE outcome = "copied" ->
                                     /\ writer' = Append(writer, <<"slides", path>>)
                                     /\ UNCHANGED processing_errors
                                [] outcome = "image" ->
                                     /\ writer' = Append(writer, <<"slides without picture", path>>)
                                     /\ processing_errors' =
                                          Append(processing_errors,
                                                 Err("Could not copy image from", path))
                                [] outcome = "partial" ->
                                     /\ writer' = Append(writer, <<"some slides", path>>)
                                     /\ processing_errors' =
                                          Append(processing_errors, Err("Could not process", path))
                                [] outcome = "unopened" ->
                                     /\ UNCHANGED writer
                                     /\ processing_errors' =
                                          Append(processing_errors, Err("Could not process", path))
                       ELSE /\ processing_errors' =
                                 Append(processing_errors, Err("Skipped non-PPTX file", path))
                            /\ UNCHANGED writer
                  /\ idx' = idx + 1
                  /\ UNCHANGED pc
  /\ UNCHANGED <<WorkerFrame, request, strategy, output, temp_pdfs, office, disk_temps>>

\* lines 201-202
merge_as_pptx_save == pc = "pptx_save" /\ save_master

\* lines 55-59, then the return to line 36
merge_documents_finish ==
  /\ pc = "merged"
  /\ processing_queue' =
       Append(processing_queue,
              Msg("status",
                  IF cancel_requested THEN Status("Operation cancelled.", 0)
                  ELSE Status("Finished. Consolidated",
                              Len(file_paths) - Len(processing_errors))))
  /\ pc' = "finally"
  /\ UNCHANGED <<WorkerFrame, processing_errors, request, strategy, idx, output, writer,
                 temp_pdfs, office, disk_temps>>

\* the steps of the merge functions
strategy_step ==
  \/ merge_as_text_open
  \/ merge_as_text_file
  \/ merge_as_pdf_begin
  \/ merge_as_pdf_file
  \/ merge_as_pdf_save
  \/ merge_as_pdf_finally
  \/ merge_as_docx_begin
  \/ merge_as_docx_file
  \/ merge_as_docx_save
  \/ merge_as_pptx_begin
  \/ merge_as_pptx_file
  \/ merge_as_pptx_save

----------------------------------------------------------------------------
(* The program *)

Next ==
  \/ \E folder_path \in Roots : set_root_folder(folder_path)
  \/ update_view_options
  \/ hide_check_clicked
  \/ \E preset \in Presets : set_file_types_from_preset(preset)
  \/ \E fmt \in KnownFormats, yes \in BOOLEAN : suggest_extensions(fmt, yes)
  \/ toggle_include_headers
  \/ \E text \in SearchTexts : search_typed(text)
  \/ \E item_id \in ItemIds(tree) : ignore_selected(item_id)
  \/ \E in_primary \in BOOLEAN, item_id \in ItemIds(tree) \cup ItemIds(ignored_tree) :
       unignore_selected(in_primary, item_id)
  \/ on_closing
  \/ app_init
  \/ \E yes \in BOOLEAN, output_filename \in {<<>>, OutputPath} :
       start_consolidation(yes, output_filename)
  \/ request_cancel
  \/ check_queue
  \/ show_errors
  \/ export_errors_to_file
  \/ close_error_log
  \/ process_files_begin
  \/ merge_documents_dispatch
  \/ strategy_step
  \/ merge_documents_finish
  \/ process_files_finally

Spec == Init /\ [][Next]_vars

----------------------------------------------------------------------------
(* The scanner alone: every configuration the program can start with, and  *)
(* the handlers that scan.  No run is started.                             *)

InitScan ==
  /\ Init
  /\ ~OFFICE_INSTALLED
  /\ output_format = "TXT"
  /\ include_headers

NextScan ==
  \/ \E folder_path \in Roots : set_root_folder(folder_path)
  \/ update_view_options
  \/ hide_check_clicked
  \/ \E preset \in Presets : set_file_types_from_preset(preset)
  \/ \E text \in SearchTexts : search_typed(text)

SpecScan == InitScan /\ [][NextScan]_vars

----------------------------------------------------------------------------
(* The session ignore lists: every configuration the program can start     *)
(* with, the handlers of the tree's context menu and the handlers that     *)
(* scan.                                                                   *)

NextIgnore ==
  \/ \E folder_path \in Roots : set_root_folder(folder_path)
  \/ update_view_options
  \/ hide_check_clicked
  \/ \E item_id \in ItemIds(tree) : ignore_selected(item_id)
  \/ \E in_primary \in BOOLEAN, item_id \in ItemIds(tree) \cup ItemIds(ignored_tree) :
       unignore_selected(in_primary, item_id)

SpecIgnore == InitScan /\ [][NextIgnore]_vars

----------------------------------------------------------------------------
(* Application runs one after the other: the handlers that change the      *)
(* session lists, closing the window and starting again.                   *)

NextSession ==
  \/ set_root_folder(<<Slash, proj>>)
  \/ update_view_options
  \/ \E item_id \in ItemIds(tree) : ignore_selected(item_id)
  \/ \E in_primary \in BOOLEAN, item_id \in ItemIds(tree) \cup ItemIds(ignored_tree) :
       unignore_selected(in_primary, item_id)
  \/ on_closing
  \/ app_init

SpecSession == InitScan /\ [][NextSession]_vars

----------------------------------------------------------------------------
(* Runs: one directory and one root, the handlers a run needs, the worker  *)

InitRuns ==
  /\ Init
  /\ ~os_nt
  /\ fs = FS_Nested
  /\ global_folder_ignores = DEFAULT_GLOBAL_IGNORE_FOLDERS
  /\ folder_ignore_patterns = Patterns(DEFAULT_GLOBAL_IGNORE_FOLDERS)
  /\ file_ignore_patterns = Patterns(DEFAULT_GLOBAL_IGNORE_FILES)
  /\ output_format \in {"TXT", "XLSX"}
  /\ include_headers

NextRuns ==
  \/ set_root_folder(<<Slash, proj>>)
  \/ update_view_options
  \/ \E fmt \in KnownFormats : suggest_extensions(fmt, FALSE)
  \/ toggle_include_headers
  \/ \E yes \in BOOLEAN, output_filename \in {<<>>, OutputPath} :
       start_consolidation(yes, output_filename)
  \/ request_cancel
  \/ check_queue
  \/ process_files_begin
  \/ merge_documents_dispatch
  \/ process_files_finally

SpecRuns == InitRuns /\ [][NextRuns]_vars

----------------------------------------------------------------------------
(* Runs and the error log: the runs above, with the "Processing Errors"    *)
(* window                                                                  *)

NextLog ==
  \/ set_root_folder(<<Slash, proj>>)
  \/ update_view_options
  \/ \E output_filename \in {<<>>, OutputPath} : start_consolidation(TRUE, output_filename)
  \/ request_cancel
  \/ check_queue
  \/ show_errors
  \/ export_errors_to_file
  \/ close_error_log
  \/ process_files_begin
  \/ merge_documents_dispatch
  \/ process_files_finally

SpecLog == InitRuns /\ [][NextLog]_vars

----------------------------------------------------------------------------
(* The merge functions alone: each is entered on its own with a list of    *)
(* files, with the application as start_consolidation leaves it (lines     *)
(* 106-110 of main.py), so that the cancel button works.                   *)

MaxFiles == 2

StrategyFiles ==
  {<<Slash, proj, a_py>>, <<Slash, proj, x_pdf>>, <<Slash, proj, d_docx>>,
   <<Slash, proj, e_pptx>>, <<Slash, proj, d_0_pdf>>}

FileLists == UNION {[1..n -> StrategyFiles] : n \in 0..MaxFiles}

InitStrategy ==
  /\ OFFICE_INSTALLED \in BOOLEAN
  /\ os_nt = OFFICE_INSTALLED
  /\ fs = FS_Nested
  /\ file_types = DefaultFileTypes
  /\ output_format \in KnownFormats
  /\ include_headers \in BOOLEAN
  /\ global_folder_ignores = DEFAULT_GLOBAL_IGNORE_FOLDERS
  /\ global_file_ignores = DEFAULT_GLOBAL_IGNORE_FILES
  /\ folder_ignore_patterns = Patterns(DEFAULT_GLOBAL_IGNORE_FOLDERS)
  /\ file_ignore_patterns = Patterns(DEFAULT_GLOBAL_IGNORE_FILES)
  /\ InitWidgets
  /\ InitConfigFile
  /\ cancel_requested = FALSE
  /\ processing_errors = <<>>
  /\ processing_queue = <<>>
  /\ start_button = "disabled"
  /\ cancel_button = "normal"
  /\ view_errors_button = "disabled"
  /\ error_log = NoErrorLog
  /\ progress = [value |-> 0, maximum |-> 100]
  /\ completion = NoCompletion
  /\ pc = "strategy"
  /\ strategy = output_format
  /\ \E files \in FileLists :
       request = [file_paths |-> files, output_filename |-> OutputPath, output_format |-> ""]
  /\ idx = 0
  /\ output = NoOutput
  /\ writer = <<>>
  /\ temp_pdfs = <<>>
  /\ office = [word |-> FALSE, powerpoint |-> FALSE]
  /\ disk_temps = {}

NextStrategy ==
  \/ request_cancel
  \/ toggle_include_headers
  \/ check_queue
  \/ merge_as_text_open
  \/ merge_as_text_file
  \/ merge_as_pdf_begin
  \/ merge_as_pdf_file
  \/ merge_as_pdf_save
  \/ merge_as_pdf_finally
  \/ merge_as_docx_begin
  \/ merge_as_docx_file
  \/ merge_as_docx_save
  \/ merge_as_pptx_begin
  \/ merge_as_pptx_file
  \/ merge_as_pptx_save

SpecStrategy == InitStrategy /\ [][NextStrategy]_vars

----------------------------------------------------------------------------
(* The worker thread alone: process_files entered with a request (line 26), *)
(* and its continuation at the call of line 53 for each merge function,     *)
(* with the message of line 31 in the queue; the application is as          *)
(* start_consolidation leaves it.  The control side cancels, toggles the    *)
(* headers and polls the queue.                                             *)

InitProcess ==
  /\ OFFICE_INSTALLED \in BOOLEAN
  /\ os_nt = OFFICE_INSTALLED
  /\ fs = FS_Nested
  /\ file_types = DefaultFileTypes
  /\ output_format \in KnownFormats
  /\ include_headers \in BOOLEAN
  /\ global_folder_ignores = DEFAULT_GLOBAL_IGNORE_FOLDERS
  /\ global_file_ignores = DEFAULT_GLOBAL_IGNORE_FILES
  /\ folder_ignore_patterns = Patterns(DEFAULT_GLOBAL_IGNORE_FOLDERS)
  /\ file_ignore_patterns = Patterns(DEFAULT_GLOBAL_IGNORE_FILES)
  /\ InitWidgets
  /\ InitConfigFile
  /\ cancel_requested = FALSE
  /\ processing_errors = <<>>
  /\ start_button = "disabled"
  /\ cancel_button = "normal"
  /\ view_errors_button = "disabled"
  /\ error_log = NoErrorLog
  /\ progress = [value |-> 0, maximum |-> 100]
  /\ completion = NoCompletion
  /\ \E files \in FileLists :
       /\ request = [file_paths |-> files, output_filename |-> OutputPath,
                     output_format |-> output_format]
       /\ \/ pc = "process_files" /\ strategy = "none" /\ processing_queue = <<>>
          \/ /\ pc = "strategy" /\ strategy = output_format
             /\ processing_queue = <<Msg("max_progress", Len(files))>>
  /\ idx = 0
  /\ output = NoOutput
  /\ writer = <<>>
  /\ temp_pdfs = <<>>
  /\ office = [word |-> FALSE, powerpoint |-> FALSE]
  /\ disk_temps = {}

\* the steps of the worker thread
worker_step ==
  \/ process_files_begin
  \/ merge_documents_dispatch
  \/ merge_as_text_open
  \/ merge_as_text_file
  \/ merge_as_pdf_begin
  \/ merge_as_pdf_file
  \/ merge_as_pdf_save
  \/ merge_as_pdf_finally
  \/ merge_as_docx_begin
  \/ merge_as_docx_file
  \/ merge_as_docx_save
  \/ merge_as_pptx_begin
  \/ merge_as_pptx_file
  \/ merge_as_pptx_save
  \/ merge_documents_finish
  \/ process_files_finally

NextProcess ==
  \/ request_cancel
  \/ check_queue
  \/ worker_step

SpecProcess == InitProcess /\ [][NextProcess]_vars

\* the worker thread is scheduled; the queue is polled every 100 ms (main.py 163)
SpecProcessFair == SpecProcess /\ WF_vars(worker_step) /\ WF_vars(check_queue)

----------------------------------------------------------------------------
(* Properties of the scanner *)

\* the session lists a scan uses (empty when the text is not a list)
SessionValid == folder_ignore_patterns.ok /\ file_ignore_patterns.ok
SessionFolderList == IF SessionValid THEN folder_ignore_patterns.pats ELSE <<>>
SessionFileList == IF SessionValid THEN file_ignore_patterns.pats ELSE <<>>

\* a folder name that a folder-ignore list matches
FolderIgnored(d) == MatchesAny(d, SessionFolderList) \/ MatchesAny(d, global_folder_ignores)

\* the path lies beneath a folder of the scanned tree whose name is ignored
BeneathIgnoredFolder(path) ==
  \E i \in (Len(root_folder) + 1)..(Len(path) - 1) : FolderIgnored(path[i])

\* the file items of a tree, as <<real path, status>>
FileItems(t) ==
  {<<DictGet(tree_item_paths, t[i].iid, <<>>), t[i].status>> :
     i \in {j \in 1..Len(t) : t[j].type # Folder}}

ClassifiedSet == {classified[i] : i \in 1..Len(classified)}

\* C1: no file beneath a folder whose name matches a global or session folder
\* pattern is classified, is an item of either tree, is cached for the filter
\* or is an Included item the collector would select
C1_PruningInvariant ==
  /\ \A e \in ClassifiedSet : ~BeneathIgnoredFolder(e[1])
  /\ \A e \in FileItems(tree) \cup FileItems(ignored_tree) : ~BeneathIgnoredFolder(e[1])
  /\ \A i \in 1..Len(all_tree_items_master_list) :
       ~BeneathIgnoredFolder(DictGet(tree_item_paths, all_tree_items_master_list[i], <<>>))

\* a scan has classified a.py of a directory whose __pycache__ holds c.py, which
\* the file rules alone would include
C1_Witness ==
  /\ fs = FS_Scenario
  /\ root_folder = <<Slash, proj>>
  /\ FolderIgnored(pycache)
  /\ <<<<Slash, proj, a_py>>, "Included">> \in ClassifiedSet
  /\ FileStatus(CurrentConfig, c_py) = "Included"
  /\ \A e \in ClassifiedSet : e[1] # <<Slash, proj, pycache, c_py>>

\* the rules of the claim, read off the configuration
SessionFileMatch(f) == \E i \in 1..Len(SessionFileList) : fnmatch(f, SessionFileList[i])
GlobalFileMatch(f) == \E i \in 1..Len(global_file_ignores) : fnmatch(f, global_file_ignores[i])
InAllowList(f) ==
  \E i \in 1..Len(file_types) :
    file_types[i] # <<>> /\ EndsWith(Lower(f), Lower(file_types[i]))

\* C2: every file a scan classifies has exactly one of the four statuses, the
\* one of the first rule that applies: session-file match, global-file match,
\* extension outside the allow-list, else Included
C2_FirstMatchStatus ==
  \A e \in ClassifiedSet :
    LET f == basename(e[1])
        status == e[2]
    IN  /\ status \in {"Included", "Ignored (Session)", "Ignored (Global)", "Ignored (Type)"}
        /\ (status = "Ignored (Session)") <=> SessionFileMatch(f)
        /\ (status = "Ignored (Global)") <=> (~SessionFileMatch(f) /\ GlobalFileMatch(f))
        /\ (status = "Ignored (Type)") <=>
             (~SessionFileMatch(f) /\ ~GlobalFileMatch(f) /\ ~InAllowList(f))
        /\ (status = "Included") <=>
             (~SessionFileMatch(f) /\ ~GlobalFileMatch(f) /\ InAllowList(f))

\* one scan has given all four statuses' rules a file: b.pyc matches a session
\* and a global pattern, a.py only the allow-list
C2_Witness ==
  /\ SessionFileMatch(b_pyc) /\ GlobalFileMatch(b_pyc)
  /\ <<<<Slash, proj, b_pyc>>, "Ignored (Session)">> \in ClassifiedSet
  /\ <<<<Slash, proj, a_py>>, "Included">> \in ClassifiedSet

\* the files the last scan classified Included, in scan order
RECURSIVE IncludedOf(_)
IncludedOf(cl) ==
  IF cl = <<>> THEN <<>>
  ELSE IF Head(cl)[2] = "Included" THEN <<Head(cl)[1]>> \o IncludedOf(Tail(cl))
  ELSE IncludedOf(Tail(cl))

\* C3: after a scan the collector returns exactly the files the scan
\* classified Included, each with its real absolute path
C3_CollectorExact ==
  (root_folder # <<>> /\ ~ui_hung) => FilesToProcess = IncludedOf(classified)

----------------------------------------------------------------------------
(* Properties of a run *)

HasError(kind) == \E i \in 1..Len(processing_errors) : processing_errors[i].kind = kind

\* C4: when merge_documents is over for a known format, the strategy of that
\* format, and no other, was invoked on the request's files, and no critical
\* error is recorded
C4_DispatchInvokesStrategy ==
  (pc = "finally" /\ request.output_format \in KnownFormats)
    => (strategy = request.output_format /\ ~HasError("critical"))

\* what the text strategy writes for readable files without headers
RECURSIVE TextOf(_)
TextOf(files) ==
  IF files = <<>> THEN <<>>
  ELSE <<Content(Head(files)), Newline>> \o TextOf(Tail(files))

\* C5: a TXT run with headers disabled that was not cancelled leaves an output
\* file holding content(f1), newline, ..., content(fN), newline and nothing else
C5_TextOutputWritten ==
  (pc = "finally" /\ request.output_format = "TXT" /\ ~include_headers /\ ~cancel_requested)
    => (output.exists /\ output.saved /\ output.content = TextOf(file_paths))

\* C6: when the cancel flag is set before the first file of a TXT run is
\* checked (k = 0), the worker's next step records no error: the cancellation
\* adds none to the errors of the k files processed
C6_CancellationAddsNoError ==
  [][(pc = "merge_documents" /\ request.output_format = "TXT" /\ cancel_requested
        /\ pc' # pc)
       => processing_errors' = processing_errors]_vars

\* C9: once a run that recorded a critical error is over and its done message
\* is handled, the outcome shown is not a success
C9_CriticalReportedFailed ==
  (pc = "idle" /\ processing_queue = <<>> /\ start_button = "normal"
     /\ completion.shown /\ HasError("critical"))
    => completion.text # "Success! Consolidated"

\* C10: when a run is asked for with a format that is none of the four, an
\* error is recorded for it
C10_UnknownSelectorFails ==
  (output_format \notin KnownFormats /\ last_report = <<NoneTypeError>>)
    => processing_errors # <<>>

\* C11: a PDF run without Office that was not cancelled writes the output
\* PDF and ends without a critical error
C11_PdfWithoutOfficeCompletes ==
  (pc = "finally" /\ request.output_format = "PDF" /\ ~OFFICE_INSTALLED /\ ~cancel_requested)
    => /\ output.exists /\ output.saved
       /\ ~HasError("critical")
       /\ ~HasError("A critical error occurred during PDF merge")

----------------------------------------------------------------------------
(* Properties of the merge functions *)

IsPrefix(a, b) == Len(a) <= Len(b) /\ SubSeq(b, 1, Len(a)) = a

\* the strategy saw the cancel flag at the check of file idx + 1: it returned
\* from the loop, or broke out of it (merge_as_pdf)
CancelObserved ==
  /\ idx < Len(file_paths)
  /\ pc \in {"returned", "merged", "pdf_save", "pdf_finally"}
  /\ ~HasError("A critical error occurred during PDF merge")

\* C7: once a strategy has seen the cancel flag at a per-file check it
\* processes no further file and does not complete the output (PDF, DOCX and
\* PPTX write no output file), and no step of a strategy removes an error
C7_CancelStopsStrategy ==
  [][/\ IsPrefix(processing_errors, processing_errors')
     /\ CancelObserved =>
          (CancelObserved' /\ idx' = idx /\ writer' = writer /\ output' = output)
     /\ CancelObserved' =>
          (~output'.saved /\ (strategy' # "TXT" => ~output'.exists))]_vars

\* merge_as_pdf has returned after it broke out of the loop at its second
\* file, with the error of the first file in the list and nothing saved
C7_Witness ==
  /\ strategy = "PDF" /\ pc = "returned"
  /\ CancelObserved /\ cancel_requested
  /\ idx = 1 /\ Len(file_paths) = 2
  /\ HasError("Skipped unsupported file for PDF merge")
  /\ ~output.exists

\* C8: a strategy that was not cancelled and could write its output has
\* processed every file of the list and saved the output when it is over
C8_PerFileErrorsNeverAbort ==
  (pc \in {"returned", "raised"} /\ ~cancel_requested /\ ~output.write_failed)
    => (idx = Len(file_paths) /\ output.saved)

----------------------------------------------------------------------------
(* Properties of the worker and the queue *)

DoneCount(q) == Cardinality({i \in 1..Len(q) : q[i].msg = "done"})

\* check_queue takes the done message in this step
DoneConsumed == DoneCount(processing_queue) > 0 /\ processing_queue' = <<>>

\* C12: a run puts exactly one done message, on every exit path and after
\* every other message of the run; when check_queue takes it the worker is
\* over, the error list is as the worker left it and can be viewed, and the
\* start button is enabled again; and every run gets there
C12_DoneDelivered ==
  /\ [](/\ DoneCount(processing_queue) <= 1
        /\ DoneCount(processing_queue) = 1 =>
             (pc = "idle" /\ processing_queue[Len(processing_queue)].msg = "done")
        /\ pc \notin {"returned", "raised"})
  /\ [][/\ DoneCount(processing_queue') > DoneCount(processing_queue) =>
             /\ pc = "finally" /\ pc' = "idle"
             /\ processing_queue' =
                  Append(processing_queue,
                         Msg("done", <<request.file_paths, request.output_filename>>))
        /\ pc = "idle" => (processing_queue' = processing_queue \/ processing_queue' = <<>>)
        /\ DoneConsumed =>
             /\ pc = "idle"
             /\ processing_errors' = processing_errors
             /\ start_button' = "normal"
             /\ processing_errors # <<>> => view_errors_button' = "normal"]_vars
  /\ <>(pc = "idle" /\ processing_queue = <<>> /\ start_button = "normal")

\* the done message of a text run that was cancelled at its second file,
\* after an error of the first, has been taken
C12_Witness ==
  /\ pc = "idle" /\ processing_queue = <<>> /\ start_button = "normal"
  /\ completion.shown /\ view_errors_button = "normal"
  /\ strategy = "TXT" /\ idx = 1 /\ Len(file_paths) = 2
  /\ HasError("Error reading file")

\* a worker runs, or its done message has not been taken
RunActive == pc # "idle" \/ DoneCount(processing_queue) > 0

\* C13: while a run is active the start button is disabled, and the step of
\* start_consolidation that starts a worker is taken only when no run is active
C13_OneRunAtATime ==
  /\ [](RunActive => start_button = "disabled")
  /\ [][(start_button = "normal" /\ start_button' = "disabled") =>
          (~RunActive /\ pc' = "process_files")]_vars

\* a second run was started after the done message of the first was taken
C13_Witness ==
  /\ pc = "process_files" /\ start_button = "disabled"
  /\ completion.shown /\ processing_queue = <<>>

\* the values of the progress messages of a queue, in order
ProgressOf(q) ==
  LET ps == SelectSeq(q, LAMBDA m : m.msg = "progress")
  IN  [i \in 1..Len(ps) |-> ps[i].value]

\* the queue holds a max_progress message
HasMaxProgress(q) == \E i \in 1..Len(q) : q[i].msg = "max_progress"

\* C14: max_progress(total) is sent before any progress message; the progress
\* values sent are strictly increasing, start at 1 and never exceed the number
\* of files; each file processed sends progress(its index); check_queue applies
\* the messages in the order they were sent
C14_ProgressOrdered ==
  /\ [](LET q == processing_queue
            ps == ProgressOf(q)
        IN  /\ \A i \in 1..Len(ps) : ps[i] \in 1..Len(file_paths)
            /\ \A i \in 1..(Len(ps) - 1) : ps[i] < ps[i + 1]
            /\ ps # <<>> => progress.value < ps[1]
            /\ \A i \in 1..Len(q) :
                 q[i].msg = "max_progress" =>
                   /\ q[i].value = Len(file_paths)
                   /\ \A j \in 1..(i - 1) : q[j].msg # "progress"
                   /\ progress.value = 0
            /\ (ps # <<>> \/ progress.value > 0) =>
                 (HasMaxProgress(q) \/ progress.maximum = Len(file_paths))
            /\ progress.value > 0 => progress.value \in 1..progress.maximum)
  /\ [][/\ idx' = idx + 1 =>
             \E k \in (Len(processing_queue) + 1)..Len(processing_queue') :
               processing_queue'[k].msg = "progress" /\ processing_queue'[k].value = idx'
        /\ (processing_queue # <<>> /\ processing_queue' = <<>>) =>
             LET ps == ProgressOf(processing_queue)
             IN  /\ progress'.value =
                      IF DoneCount(processing_queue) > 0 THEN 0
                      ELSE IF ps # <<>> THEN ps[Len(ps)] ELSE progress.value
                 /\ progress'.maximum =
                      IF HasMaxProgress(processing_queue) THEN Len(file_paths)
                      ELSE progress.maximum]_vars

\* the second of two files of a text run is processed and the progress bar
\* shows 2 of 2
C14_Witness ==
  /\ pc = "text_loop" /\ idx = 2 /\ Len(file_paths) = 2
  /\ progress = [value |-> 2, maximum |-> 2]
  /\ processing_queue = <<>>

\* C15: while a run is active no step of the control side changes
\* processing_errors, and the control side reads the list (to show it or to
\* export it) only when no run is active
C15_ErrorsWorkerOwned ==
  [][RunActive =>
       /\ pc' = pc => processing_errors' = processing_errors
       /\ error_log' # error_log => (error_log'.exported = error_log.exported
                                      /\ error_log'.text \in {error_log.text, <<>>})]_vars

\* C16: once a run is over and its completion is shown, the count of
\* consolidated files it shows is not negative, is not above the number of files
\* of the request, and is zero when no output file was written at all
C16_SuccessCountIsMerged ==
  (pc = "idle" /\ processing_queue = <<>> /\ completion.shown)
    => /\ completion.consolidated >= 0
       /\ completion.consolidated <= Len(request.file_paths)
       /\ ~output.exists => completion.consolidated = 0

C18_InvalidPatternsReported ==
  [][(~SessionValid /\ root_folder' # <<>>)
       => /\ \E i \in 1..Len(last_report') : last_report'[i] = "Invalid Patterns"
          /\ \A i \in 1..Len(last_report') : last_report'[i] # "SyntaxError"]_vars

\* a folder the last scan gave a node to and could not list
UnreadableScanned ==
  {rel \in DOMAIN fs : /\ ~fs[rel].readable
                       /\ root_folder # <<>>
                       /\ join(root_folder, rel) \in DictValues(tree_item_paths)}

\* C19: after a scan that met a folder it could not read, an error is
\* recorded for that folder
C19_UnreadableFolderRecorded ==
  UnreadableScanned # {} => HasError("Permission denied")

\* C20: in separate-ignored mode, every file the last scan gave a status
\* other than Included is an item of the ignored tree, with that status, under a
\* folder item of the ignored tree, and is no item of the primary tree
C20_IgnoredFilesInSecondTree ==
  (show_ignored_separately /\ root_folder # <<>>)
    => \A i \in 1..Len(classified) :
         classified[i][2] # "Included"
           => /\ \E j \in 1..Len(ignored_tree) :
                   /\ DictGet(tree_item_paths, ignored_tree[j].iid, <<>>) = classified[i][1]
                   /\ ignored_tree[j].text = basename(classified[i][1])
                   /\ ignored_tree[j].status = classified[i][2]
                   /\ ignored_tree[j].parent \in ItemIds(ignored_tree)
              /\ \A j \in 1..Len(tree) :
                   ~(tree[j].text = basename(classified[i][1]) /\ tree[j].status = classified[i][2])

\* the files of a classification that are Included, as a set
IncludedSet(cl) == {cl[i][1] : i \in {j \in 1..Len(cl) : cl[j][2] = "Included"}}

\* C21: hide_ignored and show_ignored_separately are never both set, and the
\* files the last scan classified Included are those a scan of the same
\* directory and lists classifies Included with neither view option set
C21_ViewModesExclusive ==
  /\ ~(hide_ignored /\ show_ignored_separately)
  /\ root_folder # <<>>
       => IncludedSet(classified) =
            IncludedSet(populate_file_tree([CurrentConfig EXCEPT !.separate = FALSE,
                                                                 !.hide = FALSE]).classified)

\* C22: closing the application, its session ignore texts being valid lists,
\* does not change the session ignore lists the next start of the application
\* begins with
C22_SessionListsNotPersisted ==
  [][(running /\ ~running' /\ SessionValid)
       => /\ load_settings(config_file').folder_ignore_patterns =
               load_settings(config_file).folder_ignore_patterns
          /\ load_settings(config_file').file_ignore_patterns =
               load_settings(config_file).file_ignore_patterns]_vars

\* C23: once merge_as_pdf has returned, every converted PDF still on disk
\* has a "Could not remove temp file" error naming it in the error list
C23_TempPdfsRemoved ==
  (strategy = "PDF" /\ pc \in {"returned", "raised"})
    => \A t \in disk_temps :
         \E i \in 1..Len(processing_errors) :
           processing_errors[i] = Err("Could not remove temp file", t)

\* the text merge_as_text is to write for files k.. of the list, the files at
\* the positions in failed being unreadable
RECURSIVE TextWith(_, _, _)
TextWith(files, failed, k) ==
  IF k > Len(files) THEN <<>>
  ELSE (IF include_headers THEN <<<<"header", files[k]>>>> ELSE <<>>)
       \o (IF k \in failed THEN <<<<"error", files[k]>>>>
           ELSE <<<<"content", files[k]>>, <<"newline">>>>)
       \o TextWith(files, failed, k + 1)

\* one "Error reading file" error for each position in failed, in order
RECURSIVE ReadErrors(_, _, _)
ReadErrors(files, failed, k) ==
  IF k > Len(files) THEN <<>>
  ELSE (IF k \in failed THEN <<Err("Error reading file", files[k])>> ELSE <<>>)
       \o ReadErrors(files, failed, k + 1)

\* C24: when merge_as_text has gone through the whole list, the output holds,
\* for every file in order, its header (when headers are on) and then its
\* content, or one placeholder line when it could not be read, and the error list
\* holds exactly one error for each file that could not be read, in order
C24_TextPlaceholders ==
  (strategy = "TXT" /\ output.saved)
    => \E failed \in SUBSET (1..Len(file_paths)) :
         /\ output.content = TextWith(file_paths, failed, 1)
         /\ processing_errors = ReadErrors(file_paths, failed, 1)

\* C24 witness: a list of two files was gone through with headers on, the
\* first file unreadable and the second read
C24_Witness ==
  /\ strategy = "TXT" /\ output.saved /\ include_headers
  /\ Len(file_paths) = 2
  /\ processing_errors = <<Err("Error reading file", file_paths[1])>>
  /\ output.content = <<<<"header", file_paths[1]>>, <<"error", file_paths[1]>>,
                        <<"header", file_paths[2]>>, <<"content", file_paths[2]>>,
                        <<"newline">>>>

\* the position of an item in the primary tree: the insertion indexes of its
\* ancestors from the top, then its own; siblings are shown in insertion order
RECURSIVE TreeRank(_)
TreeRank(iid) ==
  IF iid = 0 THEN <<>>
  ELSE LET k == CHOOSE i \in 1..Len(tree) : tree[i].iid = iid
       IN  Append(TreeRank(tree[k].parent), k)

\* the texts of an item's ancestors from the top, then its own
RECURSIVE TreeTexts(_)
TreeTexts(iid) ==
  IF iid = 0 THEN <<>>
  ELSE LET k == CHOOSE i \in 1..Len(tree) : tree[i].iid = iid
       IN  Append(TreeTexts(tree[k].parent), tree[k].text)

\* a comes before b in pre-order: a is an ancestor of b, or they part at a
\* level where a's branch was inserted first
RECURSIVE RankBefore(_, _)
RankBefore(a, b) ==
  IF a = <<>> THEN b # <<>>
  ELSE IF b = <<>> THEN FALSE
  ELSE IF Head(a) # Head(b) THEN Head(a) < Head(b)
  ELSE RankBefore(Tail(a), Tail(b))

\* the Included file items all of whose ancestors are folder items
IncludedItems ==
  {iid \in ItemIds(tree) :
     /\ ItemOf(tree, iid).status = "Included"
     /\ ItemOf(tree, iid).type # Folder
     /\ \A k \in 1..(Len(TreeRank(iid)) - 1) : tree[TreeRank(iid)[k]].type = Folder}

\* the place of a name in a directory listing
ListingIndex(names, name) == CHOOSE i \in 1..Len(names) : names[i] = name

\* the collector returns the Included file items of the tree in pre-order,
\* each once, and files of one folder come in the order the directory lists them
CollectorPreOrder ==
  LET out == FilesToProcess
      place(iid) == 1 + Cardinality({o \in IncludedItems :
                                      RankBefore(TreeRank(o), TreeRank(iid))})
      rel(iid) == Tail(TreeTexts(ItemOf(tree, iid).parent))
  IN  /\ Len(out) = Cardinality(IncludedItems)
      /\ \A iid \in IncludedItems : out[place(iid)] = join(root_folder, TreeTexts(iid))
      /\ \A a, b \in IncludedItems :
           (/\ ItemOf(tree, a).parent = ItemOf(tree, b).parent
            /\ ItemOf(tree, a).parent # 0
            /\ place(a) < place(b))
             => ListingIndex(fs[rel(a)].filenames, ItemOf(tree, a).text)
                  < ListingIndex(fs[rel(b)].filenames, ItemOf(tree, b).text)

\* a handler scanned again with the root, the lists, the file types and the
\* view options all as they were
ScannedAgain ==
  /\ root_folder # <<>> /\ ~ui_hung /\ ~ui_hung'
  /\ <<root_folder, file_types, folder_ignore_patterns, file_ignore_patterns,
       global_folder_ignores, global_file_ignores, show_ignored_separately, hide_ignored,
       filter_var, fs>>' =
     <<root_folder, file_types, folder_ignore_patterns, file_ignore_patterns,
       global_folder_ignores, global_file_ignores, show_ignored_separately, hide_ignored,
       filter_var, fs>>

C26_HeadersFixedForRun ==
  (strategy = "TXT" /\ output.saved)
    => LET headers == Cardinality({i \in 1..Len(output.content) :
                                     output.content[i][1] = "header"})
       IN  headers = 0 \/ headers = Len(file_paths)

\* C27: no file of the request is a path merge_as_pdf had a conversion
\* write to and then handed to its cleanup
C27_TempPathsSpareInputs ==
  strategy = "PDF"
    => \A i \in 1..Len(temp_pdfs), k \in 1..Len(file_paths) : temp_pdfs[i] # file_paths[k]

C29_ScanTerminates ==
  root_folder # <<>> => ~ui_hung

====
